---- MODULE Spec2Model ----
(***************************************************************************)
(* Model of the proxy server: the Selenium driver pool                     *)
(* (internal/proxy/driver_pool.py), the proxy validator                    *)
(* (internal/proxy/proxy.py), the gRPC servicer (api/server.py) and the    *)
(* process entry point (main.py).                                          *)
(*                                                                         *)
(* Four specifications share the variables:                                *)
(*   Spec         - one DriverPool used by concurrent callers, its cleanup *)
(*                  thread and close_all;                                  *)
(*   SpecValidate - one validation round over long candidate lists;        *)
(*   SpecProxy    - the servicer's start-up validation, the background     *)
(*                  reload thread and the read-only RPCs;                  *)
(*   SpecFetch    - the servicer's start-up, then concurrent FetchContent  *)
(*                  calls on the servicer's DriverPool.                    *)
(***************************************************************************)
EXTENDS Integers, Sequences, FiniteSets, TLC

(***************************************************************************)
(* Bounds of the model.                                                    *)
(***************************************************************************)
max_drivers == 1        \* DriverPool(max_drivers=...)
idle_timeout == 0       \* DriverPool(idle_timeout=...), in clock ticks
NumClients == 2         \* threads calling get_driver / return_driver
NumProxies == 1         \* distinct proxy addresses requested
MaxInst == 2            \* DriverInstance objects ever constructed
MaxTime == 1            \* clock ticks

(***************************************************************************)
(* Values.                                                                 *)
(***************************************************************************)
None == 0               \* proxy_addr=None: no proxy (direct)
NoInst == 0             \* get_driver returned None / no instance held
MaxErrors == 3          \* error_count threshold

Clients == 1..NumClients
Proxies == 1..NumProxies
Endpoints == {None} \cup Proxies
InstIds == 1..MaxInst

VARIABLES
    available_drivers,  \* Queue of idle DriverInstance ids (head first)
    active_drivers,     \* ids of the DriverInstances in the active dict
    inst,               \* DriverInstance objects, by id
    nInst,              \* DriverInstance objects constructed so far
    now,                \* time.time()
    drivers_to_close,   \* the cleanup pass's local list
    cleanup_pc,         \* "sleep" | "close": position of the cleanup thread
    client              \* per caller: position, instance held, proxy asked for

poolVars == <<available_drivers, active_drivers, inst, nInst, now,
              drivers_to_close, cleanup_pc, client>>

VARIABLES
    valid_proxies,          \* per ProxyValidator: self.valid_proxies
    failed_proxies,         \* per ProxyValidator: self.failed_proxies
    last_validation_time,   \* per ProxyValidator: self.last_validation_time
    v_pc,                   \* per ProxyValidator: position in get_valid_proxies
    v_proxies,              \* per ProxyValidator: the list scrape_proxies returned
    v_task,                 \* per ProxyValidator and session: the _validate_session task
    v_fails,                \* per ProxyValidator: probes that failed in this round
    v_order,                \* per ProxyValidator and session: probe successes, in time order
    servicer_valid_proxies, \* ProxyServicer.valid_proxies
    server_pc,              \* "init" | "serving": ProxyServicer under construction or serving
    reload_pc,              \* position of reload_proxies_background
    reloads,                \* iterations of reload_proxies_background completed
    new_proxy_map,          \* reload_proxies_background's local new_proxy_map
    pre_round_map,          \* the map published to the RPCs when the reload round began
    clock,                  \* time.time(), in seconds
    stats_resp,             \* the last GetProxyStats response
    random_resp,            \* the last GetRandomProxy response
    main_pc,                \* position of main(), "exited" once the process has exited
    current_servicer,       \* main.py current_servicer is set (not None)
    failed_at            \* per ProxyValidator: when each failed endpoint was added (history)

proxyVars == <<valid_proxies, failed_proxies, last_validation_time, v_pc, v_proxies,
               v_task, v_fails, v_order, servicer_valid_proxies, server_pc, reload_pc,
               reloads, new_proxy_map, pre_round_map, clock, stats_resp,
               random_resp, main_pc, current_servicer, failed_at>>

VARIABLES
    fetch                   \* per RPC worker thread: the FetchContent call it runs

fetchVars == <<fetch>>

VARIABLES
    CHROME_DRIVER_PATH,     \* driver_pool._CHROME_DRIVER_PATH (None until resolved)
    CHROME_DRIVER_LOCK,     \* driver_pool._CHROME_DRIVER_LOCK: the thread holding it, or None
    installs,               \* ChromeDriverManager().install() calls that returned a path
    failures,               \* ChromeDriverManager().install() calls that raised
    caller                  \* per thread: its position in get_chrome_driver_path

pathVars == <<CHROME_DRIVER_PATH, CHROME_DRIVER_LOCK, installs, failures, caller>>

VARIABLES
    probe                   \* per executor thread: the _quick_proxy_test call it runs

probeVars == <<probe>>

vars == <<poolVars, proxyVars, fetchVars, pathVars, probeVars>>

(***************************************************************************)
(* webdriver.Chrome: the proxy it was launched with and whether the        *)
(* process is live, has died on its own, or was quit.                      *)
(***************************************************************************)
NoBrowser == [proxy |-> None, status |-> "none"]

\* _create_driver: webdriver.Chrome(options with --proxy-server=<proxy_addr>)
NewBrowser(proxy_addr) == [proxy |-> proxy_addr, status |-> "live"]

(***************************************************************************)
(* DriverInstance.__init__ and the unallocated slot.                       *)
(* ctor_proxy and err_releases are history fields: the proxy the object    *)
(* was constructed with and the number of return_driver(had_error=True)    *)
(* calls on it (saturating at MaxErrors).                                  *)
(***************************************************************************)
NoInstance ==
    [driver |-> NoBrowser, current_proxy |-> None, last_used |-> 0,
     in_use |-> FALSE, error_count |-> 0, ctor_proxy |-> None, err_releases |-> 0]

DriverInstance(driver, proxy_addr) ==
    [driver |-> driver, current_proxy |-> proxy_addr, last_used |-> now,
     in_use |-> FALSE, error_count |-> 0, ctor_proxy |-> proxy_addr,
     err_releases |-> 0]

\* driver_instance.driver.quit()
Quit(r) == [r EXCEPT !.driver.status = "quit"]

(***************************************************************************)
(* A DriverInstance that was quit and that no queue, dict or caller refers *)
(* to any more is garbage: its slot keeps only that its browser was quit   *)
(* and whether it had reached the error threshold.                         *)
(***************************************************************************)
Discarded(r) ==
    [NoInstance EXCEPT
        !.driver = [proxy |-> None, status |-> "quit"],
        !.error_count = IF r.error_count >= MaxErrors THEN MaxErrors ELSE 0,
        !.err_releases = IF r.err_releases >= MaxErrors THEN MaxErrors ELSE 0]

\* driver.current_url succeeds
Healthy_always(d) == TRUE

Healthy(d) == inst[d].driver.status = "live"

RECURSIVE SeqToSet(_)
SeqToSet(s) == IF s = <<>> THEN {} ELSE {Head(s)} \cup SeqToSet(Tail(s))

RECURSIVE SelectSeqBy(_, _)
SelectSeqBy(s, keep) ==
    IF s = <<>> THEN <<>>
    ELSE IF Head(s) \in keep THEN <<Head(s)>> \o SelectSeqBy(Tail(s), keep)
    ELSE SelectSeqBy(Tail(s), keep)

Min(a, b) == IF a < b THEN a ELSE b

(***************************************************************************)
(* DriverPool._can_reuse_driver                                            *)
(***************************************************************************)
can_reuse_any_proxy(d, target_proxy) ==
    inst[d].error_count < MaxErrors

can_reuse_driver(d, target_proxy) ==
    inst[d].current_proxy = target_proxy /\ inst[d].error_count < MaxErrors

(***************************************************************************)
(* get_driver, lines 120-142: pop the available queue until a reusable     *)
(* instance is met; healthy non-matching ones go to temp_queue, dead ones  *)
(* are quit and dropped.                                                   *)
(***************************************************************************)
RECURSIVE ScanAvailable_keep_dead(_, _, _)
ScanAvailable_keep_dead(q, temp, proxy_addr) ==
    IF q = <<>>
    THEN [best |-> NoInst, rest |-> <<>>, temp |-> temp, dead |-> {}]
    ELSE LET d == Head(q) IN
         IF Healthy(d) /\ can_reuse_driver(d, proxy_addr)
         THEN [best |-> d, rest |-> Tail(q), temp |-> temp, dead |-> {}]
         ELSE ScanAvailable_keep_dead(Tail(q), Append(temp, d), proxy_addr)

RECURSIVE ScanAvailable_drop_temp(_, _, _)
ScanAvailable_drop_temp(q, temp, proxy_addr) ==
    IF q = <<>>
    THEN [best |-> NoInst, rest |-> <<>>, temp |-> temp, dead |-> {}]
    ELSE LET d == Head(q) IN
         IF Healthy(d)
         THEN IF can_reuse_driver(d, proxy_addr)
              THEN [best |-> d, rest |-> Tail(q), temp |-> temp, dead |-> {}]
              ELSE ScanAvailable_drop_temp(Tail(q), temp, proxy_addr)
         ELSE LET r == ScanAvailable_drop_temp(Tail(q), temp, proxy_addr)
              IN  [r EXCEPT !.dead = @ \cup {d}]

RECURSIVE ScanAvailable(_, _, _)
ScanAvailable(q, temp, proxy_addr) ==
    IF q = <<>>
    THEN [best |-> NoInst, rest |-> <<>>, temp |-> temp, dead |-> {}]
    ELSE LET d == Head(q) IN
         IF Healthy(d)
         THEN IF can_reuse_driver(d, proxy_addr)
              THEN [best |-> d, rest |-> Tail(q), temp |-> temp, dead |-> {}]
              ELSE ScanAvailable(Tail(q), Append(temp, d), proxy_addr)
         ELSE LET r == ScanAvailable(Tail(q), temp, proxy_addr)
              IN  [r EXCEPT !.dead = @ \cup {d}]

(***************************************************************************)
(* DriverPool._reconfigure_driver_proxy, success branch: the old browser   *)
(* is quit, the instance object is kept and given the new browser.         *)
(***************************************************************************)
reconfigure_keep_driver(r, new_proxy) ==
    [r EXCEPT !.current_proxy = new_proxy, !.error_count = 0]

reconfigure_driver_proxy(r, new_proxy) ==
    [r EXCEPT !.driver = NewBrowser(new_proxy), !.current_proxy = new_proxy,
              !.error_count = 0]

\* what _create_driver may return: a browser (TRUE), or None on any exception
CreateOutcomes == BOOLEAN

\* get_driver lines 157 and 177: the capacity test
under_limit == Cardinality(active_drivers) < max_drivers

(***************************************************************************)
(* DriverPool.get_driver, the whole call (it holds the lock throughout).   *)
(* The caller c goes on with the instance, or finds it got None.           *)
(***************************************************************************)
get_driver(c, proxy_addr, createOk) ==
    /\ client[c].pc = "idle"
    /\ LET s  == ScanAvailable(available_drivers, <<>>, proxy_addr)
           q1 == s.rest \o s.temp
           i1 == [d \in InstIds |->
                     IF d \in s.dead THEN Discarded(inst[d]) ELSE inst[d]]
           ni == nInst + 1
           got(d) == [client EXCEPT ![c] =
                         [pc |-> "using", held |-> d, want |-> proxy_addr]]
           gotNone == [client EXCEPT ![c] =
                         [pc |-> "nodriver", held |-> NoInst, want |-> proxy_addr]]
       IN
       IF s.best # NoInst THEN
            \* lines 148-154
            /\ inst' = [i1 EXCEPT ![s.best].in_use = TRUE,
                                  ![s.best].last_used = now]
            /\ active_drivers' = active_drivers \cup {s.best}
            /\ available_drivers' = q1
            /\ client' = got(s.best)
            /\ UNCHANGED nInst
       ELSE IF q1 # <<>> /\ ~under_limit THEN
            \* lines 157-174
            LET d == Head(q1) IN
            IF createOk THEN
                /\ inst' = [i1 EXCEPT ![d] =
                       [reconfigure_driver_proxy(inst[d], proxy_addr)
                           EXCEPT !.in_use = TRUE, !.last_used = now]]
                /\ active_drivers' = active_drivers \cup {d}
                /\ available_drivers' = Tail(q1)
                /\ client' = got(d)
                /\ UNCHANGED nInst
            ELSE
                /\ inst' = [i1 EXCEPT ![d] = Discarded(inst[d])]
                /\ available_drivers' = Tail(q1)
                /\ client' = gotNone
                /\ UNCHANGED <<nInst, active_drivers>>
       ELSE IF under_limit /\ createOk /\ nInst < MaxInst THEN
            \* lines 177-186
            /\ inst' = [i1 EXCEPT ![ni] =
                   [DriverInstance(NewBrowser(proxy_addr), proxy_addr)
                       EXCEPT !.in_use = TRUE]]
            /\ nInst' = ni
            /\ active_drivers' = active_drivers \cup {ni}
            /\ available_drivers' = q1
            /\ client' = got(ni)
       ELSE
            \* lines 188-189
            /\ inst' = i1
            /\ available_drivers' = q1
            /\ client' = gotNone
            /\ UNCHANGED <<nInst, active_drivers>>
    /\ UNCHANGED <<now, drivers_to_close, cleanup_pc>>

(***************************************************************************)
(* The caller's path when get_driver returned None: it raises (server.py)  *)
(* or returns False (proxy.py) without a return_driver call.               *)
(***************************************************************************)
no_driver(c) ==
    /\ client[c].pc = "nodriver"
    /\ client' = [client EXCEPT ![c] = [pc |-> "idle", held |-> NoInst, want |-> None]]
    /\ UNCHANGED <<available_drivers, active_drivers, inst, nInst, now,
                   drivers_to_close, cleanup_pc>>

(***************************************************************************)
(* DriverPool.return_driver, called from the caller's finally block.       *)
(***************************************************************************)
too_many_errors_off_by_one(count) == count > MaxErrors

too_many_errors(count) == count >= MaxErrors

return_driver(c, had_error) ==
    /\ client[c].pc = "using"
    /\ LET d  == client[c].held
           ec == inst[d].error_count + (IF had_error THEN 1 ELSE 0)
           er == IF had_error THEN Min(inst[d].err_releases + 1, MaxErrors)
                 ELSE inst[d].err_releases
           r  == [inst[d] EXCEPT !.in_use = FALSE, !.last_used = now,
                                 !.error_count = ec, !.err_releases = er]
       IN
       /\ active_drivers' = active_drivers \ {d}
       /\ IF too_many_errors(ec) THEN
              /\ inst' = [inst EXCEPT ![d] = Discarded(r)]
              /\ UNCHANGED available_drivers
          ELSE IF Healthy(d) THEN
              /\ inst' = [inst EXCEPT ![d] = r]
              /\ available_drivers' = Append(available_drivers, d)
          ELSE
              /\ inst' = [inst EXCEPT ![d] = Discarded(r)]
              /\ UNCHANGED available_drivers
    /\ client' = [client EXCEPT ![c] = [pc |-> "idle", held |-> NoInst, want |-> None]]
    /\ UNCHANGED <<nInst, now, drivers_to_close, cleanup_pc>>

(***************************************************************************)
(* DriverPool._cleanup_inactive_drivers, run by the cleanup thread after   *)
(* each sleep: the scan under the lock, then the quits outside it.         *)
(***************************************************************************)
is_inactive_inclusive(d, current_time) ==
    current_time - inst[d].last_used >= idle_timeout

is_inactive(d, current_time) ==
    current_time - inst[d].last_used > idle_timeout

cleanup_scan_quit_locked ==
    /\ cleanup_pc = "sleep"
    /\ LET old == {d \in SeqToSet(available_drivers) : is_inactive(d, now)}
       IN /\ drivers_to_close' = <<>>
          /\ available_drivers' =
                 SelectSeqBy(available_drivers, SeqToSet(available_drivers) \ old)
          /\ inst' = [d \in InstIds |-> IF d \in old THEN Discarded(inst[d]) ELSE inst[d]]
    /\ cleanup_pc' = "close"
    /\ UNCHANGED <<active_drivers, nInst, now, client>>

cleanup_scan_keep_queue ==
    /\ cleanup_pc = "sleep"
    /\ LET old == {d \in SeqToSet(available_drivers) : is_inactive(d, now)}
       IN /\ drivers_to_close' = SelectSeqBy(available_drivers, old)
          /\ available_drivers' = available_drivers
    /\ cleanup_pc' = "close"
    /\ UNCHANGED <<active_drivers, inst, nInst, now, client>>

cleanup_scan ==
    /\ cleanup_pc = "sleep"
    /\ LET old == {d \in SeqToSet(available_drivers) : is_inactive(d, now)}
       IN /\ drivers_to_close' = SelectSeqBy(available_drivers, old)
          /\ available_drivers' =
                 SelectSeqBy(available_drivers, SeqToSet(available_drivers) \ old)
    /\ cleanup_pc' = "close"
    /\ UNCHANGED <<active_drivers, inst, nInst, now, client>>

cleanup_close ==
    /\ cleanup_pc = "close"
    /\ inst' = [d \in InstIds |->
                   IF d \in SeqToSet(drivers_to_close)
                   THEN Discarded(inst[d]) ELSE inst[d]]
    /\ drivers_to_close' = <<>>
    /\ cleanup_pc' = "sleep"
    /\ UNCHANGED <<available_drivers, active_drivers, nInst, now, client>>

(***************************************************************************)
(* DriverPool.close_all: the active instances are quit (their callers      *)
(* still hold them), the available ones are quit and dropped.              *)
(***************************************************************************)
\* the pool's collections and instances after close_all has run on pool P
CloseAll_keep_active(P) ==
    [inst |-> [d \in InstIds |->
                  IF d \in P.active_drivers THEN Quit(P.inst[d])
                  ELSE IF d \in SeqToSet(P.available_drivers) THEN Discarded(P.inst[d])
                  ELSE P.inst[d]],
     active_drivers |-> P.active_drivers,
     available_drivers |-> <<>>]

CloseAll(P) ==
    [inst |-> [d \in InstIds |->
                  IF d \in P.active_drivers THEN Quit(P.inst[d])
                  ELSE IF d \in SeqToSet(P.available_drivers) THEN Discarded(P.inst[d])
                  ELSE P.inst[d]],
     active_drivers |-> {},
     available_drivers |-> <<>>]

\* the pool as it is
ThePool ==
    [inst |-> inst, active_drivers |-> active_drivers,
     available_drivers |-> available_drivers]

close_all ==
    /\ inst' = CloseAll(ThePool).inst
    /\ active_drivers' = CloseAll(ThePool).active_drivers
    /\ available_drivers' = CloseAll(ThePool).available_drivers
    /\ UNCHANGED <<nInst, now, drivers_to_close, cleanup_pc, client>>

(***************************************************************************)
(* Environment: the clock advances; a browser process dies on its own.     *)
(***************************************************************************)
Tick ==
    /\ now < MaxTime
    /\ now' = now + 1
    /\ UNCHANGED <<available_drivers, active_drivers, inst, nInst,
                   drivers_to_close, cleanup_pc, client>>

Crash(d) ==
    /\ inst[d].driver.status = "live"
    /\ inst' = [inst EXCEPT ![d].driver.status = "crashed"]
    /\ UNCHANGED <<available_drivers, active_drivers, nInst, now,
                   drivers_to_close, cleanup_pc, client>>

(***************************************************************************)
(* DriverPool.__init__                                                     *)
(***************************************************************************)
PoolInit ==
    /\ available_drivers = <<>>
    /\ active_drivers = {}
    /\ inst = [i \in InstIds |-> NoInstance]
    /\ nInst = 0
    /\ now = 0
    /\ drivers_to_close = <<>>
    /\ cleanup_pc = "sleep"
    /\ client = [c \in Clients |-> [pc |-> "idle", held |-> NoInst, want |-> None]]

(***************************************************************************)
(* internal/proxy/proxy.py: ProxyValidator.                                *)
(* Two validators exist in the process: the servicer's ("srv", run once by *)
(* ProxyServicer._initialize) and the reload thread's own ("bg").          *)
(***************************************************************************)
QUOTA == 20                 \* _validate_session: stop at 20, return all_valid[:20]
batch_size == 5             \* _validate_session: batch_size
FAILED_TTL == 1800          \* get_valid_proxies: failed cache lifetime, seconds
UPDATE_TIME_MINUTES == 15   \* config.py

MaxCandidates == 22         \* longest list scrape_proxies returns (SpecValidate)
MaxFailedProbes == 1        \* probes that fail in one round (SpecValidate)
ShortList == 2              \* longest list scrape_proxies returns (SpecProxy)
MaxReloads == 1             \* iterations of the reload loop
ReloadRounds == 6           \* iterations of the reload loop (SpecReload)
LoopRounds == 2             \* iterations of the reload loop (SpecLoop)

Sessions == {"CoinMarketCap"}   \* PROXY_SESSIONS
Validators == {"srv", "bg"}

\* a dict session -> list; {} is the map with the empty domain
EmptyMap == [s \in {} |-> <<>>]

Put(m, k, val) == [x \in DOMAIN m \cup {k} |-> IF x = k THEN val ELSE m[x]]

RECURSIVE SumLens(_, _)
SumLens(m, D) ==
    IF D = {} THEN 0
    ELSE LET k == CHOOSE x \in D : TRUE IN Len(m[k]) + SumLens(m, D \ {k})

Reverse(s) == [i \in 1..Len(s) |-> s[Len(s) + 1 - i]]

Prefix(s, n) == SubSeq(s, 1, Min(n, Len(s)))

\* lost: future.result(timeout=120) gave up on the task (history field)
NoTask == [status |-> "none", next |-> 0, all_valid |-> <<>>, collected |-> FALSE,
           lost |-> FALSE]

\* _validate_session line 167: batches = [proxies[i:i+batch_size] ...]
NumBatches(proxies) == (Len(proxies) + batch_size - 1) \div batch_size

Batch(proxies, k) ==
    IF k < 1 \/ (k - 1) * batch_size >= Len(proxies) THEN <<>>
    ELSE SubSeq(proxies, (k - 1) * batch_size + 1, Min(k * batch_size, Len(proxies)))

\* _test_proxy_batch line 86: fresh_proxies
FreshProxies_all(v, batch) == batch

FreshProxies(v, batch) == SelectSeq(batch, LAMBDA p : p \notin failed_proxies[v])

\* when each endpoint of a failed cache was added to it (history)
NoTimes == [p \in {} |-> 0]

CurrentBatch(v, s) == Batch(v_proxies[v], v_task[v][s].next)

CurrentFresh(v, s) == FreshProxies(v, CurrentBatch(v, s))

(***************************************************************************)
(* get_valid_proxies lines 116-127: the failed cache is cleared when the   *)
(* previous round began more than 30 minutes ago; the validator's own map  *)
(* is cleared.                                                             *)
(***************************************************************************)
failed_cache_stale(v) == clock - last_validation_time[v] > FAILED_TTL

round_start(v) ==
    /\ v_pc[v] = "start"
    /\ failed_proxies' = [failed_proxies EXCEPT ![v] =
                             IF failed_cache_stale(v) THEN {} ELSE @]
    /\ failed_at' = [failed_at EXCEPT ![v] =
                         IF failed_cache_stale(v) THEN NoTimes ELSE @]
    /\ last_validation_time' = [last_validation_time EXCEPT ![v] = clock]
    /\ valid_proxies' = [valid_proxies EXCEPT ![v] = EmptyMap]
    /\ v_pc' = [v_pc EXCEPT ![v] = "scrape"]
    /\ v_fails' = [v_fails EXCEPT ![v] = 0]
    /\ v_order' = [v_order EXCEPT ![v] = [s \in Sessions |-> <<>>]]
    /\ UNCHANGED <<v_proxies, v_task, servicer_valid_proxies, server_pc, reload_pc,
                   reloads, new_proxy_map, pre_round_map, clock, stats_resp,
                   random_resp, main_pc, current_servicer>>

(***************************************************************************)
(* get_valid_proxies lines 130-142: scrape_proxies returns the unique      *)
(* candidates 1..n; with none the round returns {}; otherwise one          *)
(* _validate_session task per session is submitted.                        *)
(***************************************************************************)
scrape(v, n) ==
    /\ v_pc[v] = "scrape"
    /\ v_proxies' = [v_proxies EXCEPT ![v] = [i \in 1..n |-> i]]
    /\ IF n = 0
       THEN /\ v_pc' = [v_pc EXCEPT ![v] = "return"]
            /\ UNCHANGED v_task
       ELSE /\ v_pc' = [v_pc EXCEPT ![v] = "sessions"]
            /\ v_task' = [v_task EXCEPT ![v] =
                   [s \in Sessions |-> [NoTask EXCEPT !.status = "running", !.next = 1]]]
    /\ UNCHANGED <<valid_proxies, failed_proxies, last_validation_time, v_fails, v_order,
                   servicer_valid_proxies, server_pc, reload_pc, reloads, new_proxy_map,
                   pre_round_map, clock, stats_resp,
                   random_resp, main_pc, current_servicer, failed_at>>

(***************************************************************************)
(* _validate_session, one iteration of its loop: _test_proxy_batch on the  *)
(* next batch (the probes of `passes` return True, the other fresh ones    *)
(* False; as_completed yields them in submission order or, with `rev`, in  *)
(* the opposite order), then lines 173-186.                                *)
(***************************************************************************)
truncate_none(all_valid) == all_valid

truncate(all_valid) == Prefix(all_valid, QUOTA)

quota_reached_above(all_valid) == Len(all_valid) > QUOTA

quota_reached_at_batch(all_valid) == Len(all_valid) >= batch_size

quota_reached(all_valid) == Len(all_valid) >= QUOTA

test_batch(v, s, passes, rev) ==
    /\ v_pc[v] = "sessions"
    /\ v_task[v][s].status = "running"
    /\ LET t     == v_task[v][s]
           fresh == CurrentFresh(v, s)
           ok    == SelectSeq(fresh, LAMBDA p : p \in passes)
           valid_batch == IF rev THEN Reverse(ok) ELSE ok
           bad   == {fresh[i] : i \in 1..Len(fresh)} \ passes
           all   == t.all_valid \o valid_batch
           last  == t.next >= NumBatches(v_proxies[v])
       IN
       /\ passes \subseteq {fresh[i] : i \in 1..Len(fresh)}
       /\ failed_proxies' = [failed_proxies EXCEPT ![v] = @ \cup bad]
       /\ v_fails' = [v_fails EXCEPT ![v] = @ + Cardinality(bad)]
       /\ failed_at' = [failed_at EXCEPT ![v] =
              [p \in failed_proxies[v] \cup bad |->
                  IF p \in failed_proxies[v] THEN failed_at[v][p] ELSE clock]]
       /\ v_order' = [v_order EXCEPT ![v][s] = @ \o valid_batch]
       /\ v_task' = [v_task EXCEPT ![v][s] =
              IF quota_reached(all) \/ last
              THEN [t EXCEPT !.status = "done", !.all_valid = truncate(all)]
              ELSE [t EXCEPT !.next = @ + 1, !.all_valid = all]]
    /\ UNCHANGED <<valid_proxies, last_validation_time, v_pc, v_proxies,
                   servicer_valid_proxies, server_pc, reload_pc, reloads, new_proxy_map,
                   pre_round_map, clock, stats_resp,
                   random_resp, main_pc, current_servicer>>

(***************************************************************************)
(* _test_proxy_batch line 100: as_completed(timeout=30) raises; the        *)
(* exception leaves _validate_session, whose task ends with an error.      *)
(***************************************************************************)
batch_timeout(v, s) ==
    /\ v_pc[v] = "sessions"
    /\ v_task[v][s].status = "running"
    /\ Len(CurrentFresh(v, s)) > 0
    /\ v_task' = [v_task EXCEPT ![v][s].status = "error"]
    /\ UNCHANGED <<valid_proxies, failed_proxies, last_validation_time, v_pc, v_proxies,
                   v_fails, v_order, servicer_valid_proxies, server_pc, reload_pc,
                   reloads, new_proxy_map, pre_round_map, clock, stats_resp,
                   random_resp, main_pc, current_servicer, failed_at>>

(***************************************************************************)
(* get_valid_proxies lines 145-152: future.result(timeout=120) of one      *)
(* session; a non-empty list is stored under the validator's lock, an      *)
(* exception (the task's, or the 120 s timeout) is logged.                 *)
(***************************************************************************)
collect(v, s) ==
    /\ v_pc[v] = "sessions"
    /\ ~v_task[v][s].collected
    /\ v_task[v][s].status \in {"done", "error"}
    /\ valid_proxies' = [valid_proxies EXCEPT ![v] =
           IF v_task[v][s].status = "done" /\ v_task[v][s].all_valid # <<>>
           THEN Put(@, s, v_task[v][s].all_valid) ELSE @]
    /\ v_task' = [v_task EXCEPT ![v][s].collected = TRUE]
    /\ UNCHANGED <<failed_proxies, last_validation_time, v_pc, v_proxies, v_fails,
                   v_order, servicer_valid_proxies, server_pc, reload_pc, reloads,
                   new_proxy_map, pre_round_map, clock, stats_resp,
                   random_resp, main_pc, current_servicer, failed_at>>

collect_timeout(v, s) ==
    /\ v_pc[v] = "sessions"
    /\ ~v_task[v][s].collected
    /\ v_task[v][s].status = "running"
    /\ v_task' = [v_task EXCEPT ![v][s].collected = TRUE, ![v][s].lost = TRUE]
    /\ UNCHANGED <<valid_proxies, failed_proxies, last_validation_time, v_pc, v_proxies,
                   v_fails, v_order, servicer_valid_proxies, server_pc, reload_pc,
                   reloads, new_proxy_map, pre_round_map, clock, stats_resp,
                   random_resp, main_pc, current_servicer, failed_at>>

\* the session executor's __exit__ waits for every task; lines 155-157
round_finish(v) ==
    /\ v_pc[v] = "sessions"
    /\ \A s \in Sessions :
           v_task[v][s].collected /\ v_task[v][s].status \in {"done", "error"}
    /\ v_pc' = [v_pc EXCEPT ![v] = "return"]
    /\ UNCHANGED <<valid_proxies, failed_proxies, last_validation_time, v_proxies,
                   v_task, v_fails, v_order, servicer_valid_proxies, server_pc,
                   reload_pc, reloads, new_proxy_map, pre_round_map, clock, stats_resp,
                   random_resp, main_pc, current_servicer, failed_at>>

\* get_valid_proxies line 133 (return {}) and line 159 (return a copy)
ReturnedMap_previous(v) ==
    IF v_proxies[v] = <<>> THEN pre_round_map ELSE valid_proxies[v]

ReturnedMap_candidates(v) == [s \in Sessions |-> v_proxies[v]]

ReturnedMap(v) == IF v_proxies[v] = <<>> THEN EmptyMap ELSE valid_proxies[v]

(***************************************************************************)
(* api/server.py ProxyServicer._initialize, called by __init__: the round  *)
(* of the servicer's validator returns and the server starts serving.      *)
(***************************************************************************)
initialize_done ==
    /\ server_pc = "init"
    /\ v_pc["srv"] = "return"
    /\ servicer_valid_proxies' = ReturnedMap("srv")
    /\ server_pc' = "serving"
    /\ current_servicer' = TRUE
    /\ v_pc' = [v_pc EXCEPT !["srv"] = "idle"]
    /\ UNCHANGED <<valid_proxies, failed_proxies, last_validation_time, v_proxies,
                   v_task, v_fails, v_order, reload_pc, reloads, new_proxy_map,
                   pre_round_map, clock, stats_resp,
                   random_resp, main_pc, failed_at>>

(***************************************************************************)
(* main.py reload_proxies_background: sleep, a round of its own validator, *)
(* the result kept in the local new_proxy_map, the pool closed.            *)
(***************************************************************************)
reload_wake(limit) ==
    /\ reload_pc = "sleep"
    /\ reloads < limit
    /\ clock' = clock + UPDATE_TIME_MINUTES * 60
    /\ reload_pc' = "round"
    /\ v_pc' = [v_pc EXCEPT !["bg"] = "start"]
    /\ pre_round_map' = servicer_valid_proxies
    /\ UNCHANGED <<valid_proxies, failed_proxies, last_validation_time, v_proxies,
                   v_task, v_fails, v_order, servicer_valid_proxies, server_pc, reloads,
                   new_proxy_map, stats_resp,
                   random_resp, main_pc, current_servicer, failed_at>>

reload_done ==
    /\ reload_pc = "round"
    /\ v_pc["bg"] = "return"
    /\ new_proxy_map' = ReturnedMap("bg")
    /\ reload_pc' = "close"
    /\ v_pc' = [v_pc EXCEPT !["bg"] = "idle"]
    /\ UNCHANGED <<valid_proxies, failed_proxies, last_validation_time, v_proxies,
                   v_task, v_fails, v_order, servicer_valid_proxies, server_pc, reloads,
                   pre_round_map, clock, stats_resp,
                   random_resp, main_pc, current_servicer, failed_at>>

(***************************************************************************)
(* main.py lines 52-53: an exception raised inside the try block (by the   *)
(* round, which has then left its executors: every task and probe is over) *)
(* is caught and logged; the finally block follows.                        *)
(***************************************************************************)
RoundAtRest(v) ==
    v_pc[v] = "sessions" => \A s \in Sessions : v_task[v][s].status # "running"

reload_raise ==
    /\ reload_pc = "round"
    /\ v_pc["bg"] # "idle"
    /\ RoundAtRest("bg")
    /\ reload_pc' = "except"
    /\ v_pc' = [v_pc EXCEPT !["bg"] = "raised"]
    /\ UNCHANGED <<valid_proxies, failed_proxies, last_validation_time, v_proxies,
                   v_task, v_fails, v_order, servicer_valid_proxies, server_pc, reloads,
                   new_proxy_map, pre_round_map, clock, stats_resp,
                   random_resp, main_pc, current_servicer, failed_at>>

\* proxy.py lines 188-191
close_driver_pool_skip == UNCHANGED poolVars

close_driver_pool == close_all

\* finally: proxy_validator.close_driver_pool()
reload_close ==
    /\ reload_pc \in {"close", "except"}
    /\ reload_pc' = "sleep"
    /\ reloads' = reloads + 1
    /\ UNCHANGED <<valid_proxies, failed_proxies, last_validation_time, v_pc, v_proxies,
                   v_task, v_fails, v_order, servicer_valid_proxies, server_pc,
                   new_proxy_map, pre_round_map, clock, stats_resp,
                   random_resp, main_pc, current_servicer, failed_at>>

(***************************************************************************)
(* api/server.py ProxyServicer.GetProxyStats                               *)
(***************************************************************************)
\* main.py lines 69-82: server.start() follows the ProxyServicer constructor
accepting_requests_early == server_pc # "unstarted"

accepting_requests == server_pc = "serving"

\* the map the RPC handlers read: self.valid_proxies of the servicer
served_map_live == valid_proxies["bg"]

served_map == servicer_valid_proxies

StatsOf_count_sessions(m) ==
    [proxy_count_by_session |-> [s \in DOMAIN m |-> Len(m[s])],
     total_valid_proxies |-> Cardinality(DOMAIN m)]

StatsOf(m) ==
    [proxy_count_by_session |-> [s \in DOMAIN m |-> Len(m[s])],
     total_valid_proxies |-> SumLens(m, DOMAIN m)]

NoStats == [stats |-> StatsOf(EmptyMap), served |-> FALSE, during |-> FALSE,
            pre |-> EmptyMap]

GetProxyStats ==
    /\ accepting_requests
    /\ stats_resp' = [stats |-> StatsOf(served_map), served |-> TRUE,
                      during |-> reload_pc = "round", pre |-> pre_round_map]
    /\ UNCHANGED <<valid_proxies, failed_proxies, last_validation_time, v_pc, v_proxies,
                   v_task, v_fails, v_order, servicer_valid_proxies, server_pc,
                   reload_pc, reloads, new_proxy_map, pre_round_map, clock,
                   random_resp, main_pc, current_servicer, failed_at>>

(***************************************************************************)
(* api/server.py ProxyServicer.GetRandomProxy.  The empty proxy string of  *)
(* a ProxyResponse is written None.                                        *)
(***************************************************************************)
NoRandom == [served |-> FALSE, session |-> "", code |-> "NONE", proxy |-> None,
             success |-> FALSE]

\* line 229: random.choice(proxies), pick being the index chosen
random_choice_index(proxies, pick) == pick

random_choice(proxies, pick) == proxies[pick]

\* lines 208-236
RandomProxyResponse(session, pick) ==
    IF session = ""
    THEN [code |-> "INVALID_ARGUMENT", proxy |-> None, success |-> FALSE]
    ELSE IF session \notin Sessions
    THEN [code |-> "OK", proxy |-> None, success |-> FALSE]
    ELSE LET proxies == IF session \in DOMAIN served_map
                        THEN served_map[session] ELSE <<>>
         IN  IF proxies = <<>>
             THEN [code |-> "OK", proxy |-> None, success |-> FALSE]
             ELSE [code |-> "OK", proxy |-> random_choice(proxies, pick),
                   success |-> TRUE]

GetRandomProxy(session, pick) ==
    /\ accepting_requests
    /\ IF session \in DOMAIN served_map /\ session \in Sessions
       THEN pick \in 1..Len(served_map[session]) \/ pick = 1
       ELSE pick = 1
    /\ LET r == RandomProxyResponse(session, pick)
       IN  random_resp' = [served |-> TRUE, session |-> session, code |-> r.code,
                           proxy |-> r.proxy, success |-> r.success]
    /\ UNCHANGED <<valid_proxies, failed_proxies, last_validation_time, v_pc, v_proxies,
                   v_task, v_fails, v_order, servicer_valid_proxies, server_pc,
                   reload_pc, reloads, new_proxy_map, pre_round_map, clock, stats_resp,
                   main_pc, current_servicer, failed_at>>

(***************************************************************************)
(* api/server.py ProxyServicer.FetchContent.  Each RPC worker thread c     *)
(* runs one call at a time; the call's selenium steps use the servicer's   *)
(* DriverPool as caller c.                                                 *)
(***************************************************************************)
FetchCandidates == 2        \* longest list scrape_proxies returns (SpecFetch)
NumWorkers == 1             \* RPC worker threads running FetchContent

Workers == 1..NumWorkers    \* the callers of the servicer's pool that serve RPCs

RequestSessions == Sessions \cup {"", "Unknown"}    \* request.session
Pages == {"page1", "page2"}                         \* bytes a fetch returns

\* str(e) of what _fetch_with_selenium raises (lines 96-104) once it has a driver
SeleniumErrors == {"Timeout esperando a que cargue la pagina"}

\* lines 53-54 and 102-104: get_driver returned None
NoDriverError == "Error en Selenium: No se pudo obtener driver del pool"

\* str(e) of what requests.get / raise_for_status raise
RequestsErrors == {"HTTPError", "ConnectionError"}

NoResponse == [code |-> "NONE", details |-> "", content |-> ""]

NoCall ==
    [pc |-> "idle", session |-> "", proxy |-> FALSE, proxy_addr |-> None,
     attempts |-> <<>>, response |-> NoResponse]

FetchInit == fetch = [c \in Clients |-> NoCall]

\* lines 153-156: the proxy steps run only for request.proxy and a session
\* with a non-empty list
first_step(session, proxy) ==
    IF proxy /\ session \in DOMAIN served_map /\ served_map[session] # <<>>
    THEN "A" ELSE "C"

\* the nesting of the try blocks, lines 158-198
next_step_skip_B(step) ==
    CASE step = "A" -> "C"
      [] step = "B" -> "C"
      [] step = "C" -> "D"
      [] OTHER -> "D"

next_step(step) ==
    CASE step = "A" -> "B"
      [] step = "B" -> "C"
      [] step = "C" -> "D"
      [] OTHER -> "D"

\* the steps whose exception a handler inside the ladder catches (lines 166,
\* 177, 189); the exception of D reaches the handler of line 200
caught_in_ladder_not_B(step) == step \in {"A", "C"}

caught_in_ladder(step) == step \in {"A", "B", "C"}

\* the proxy a step fetches through
step_proxy_A_only(f) == IF f.pc = "A" THEN f.proxy_addr ELSE None

step_proxy(f) == IF f.pc \in {"A", "B"} THEN f.proxy_addr ELSE None

\* return proxy_pb2.Response(content=content)
step_succeeded(c, content) ==
    fetch' = [fetch EXCEPT
        ![c].attempts = Append(@, [step |-> fetch[c].pc, ok |-> TRUE, out |-> content,
                                   via |-> step_proxy(fetch[c])]),
        ![c].pc = "done",
        ![c].response = [code |-> "OK", details |-> "", content |-> content]]

\* the step raised e with str(e) = msg
step_failed(c, msg) ==
    LET step == fetch[c].pc
        log  == Append(fetch[c].attempts, [step |-> step, ok |-> FALSE, out |-> msg,
                                           via |-> step_proxy(fetch[c])])
    IN  IF caught_in_ladder(step)
        THEN fetch' = [fetch EXCEPT ![c].attempts = log, ![c].pc = next_step(step)]
        ELSE \* lines 200-204
             fetch' = [fetch EXCEPT
                 ![c].attempts = log,
                 ![c].pc = "done",
                 ![c].response = [code |-> "INTERNAL", details |-> msg, content |-> ""]]

\* line 143: request.session is not empty and is a key of PROXY_SESSIONS
session_valid_nonempty(session) == session # ""

session_valid(session) == session # "" /\ session \in Sessions

\* lines 142-157: the session check and the choice of the first step
FetchContent(c, session, proxy, pick) ==
    /\ accepting_requests
    /\ fetch[c].pc \in {"idle", "done"}
    /\ client[c].pc = "idle"
    /\ IF ~session_valid(session)
       THEN /\ pick = 1
            /\ fetch' = [fetch EXCEPT ![c] =
                   [NoCall EXCEPT !.pc = "done", !.session = session, !.proxy = proxy,
                       !.response = [code |-> "INVALID_ARGUMENT",
                                     details |-> "Sesion invalida", content |-> ""]]]
       ELSE IF first_step(session, proxy) = "A"
       THEN /\ pick \in 1..Len(served_map[session])
            /\ fetch' = [fetch EXCEPT ![c] =
                   [NoCall EXCEPT !.pc = "A", !.session = session, !.proxy = proxy,
                       !.proxy_addr = served_map[session][pick]]]
       ELSE /\ pick = 1
            /\ fetch' = [fetch EXCEPT ![c] =
                   [NoCall EXCEPT !.pc = "C", !.session = session, !.proxy = proxy]]
    /\ UNCHANGED poolVars

\* _fetch_with_selenium line 52
fetch_with_selenium_get(c, createOk) ==
    /\ fetch[c].pc \in {"A", "C"}
    /\ get_driver(c, step_proxy(fetch[c]), createOk)
    /\ UNCHANGED fetch

\* _fetch_with_selenium lines 53-54, 102-108: no driver, nothing to return
fetch_with_selenium_nodriver(c) ==
    /\ fetch[c].pc \in {"A", "C"}
    /\ no_driver(c)
    /\ step_failed(c, NoDriverError)

\* _fetch_with_selenium lines 56-108: the page is returned, or an exception
\* is raised with had_error = True; the finally block returns the driver
fetch_with_selenium_page(c, content) ==
    /\ fetch[c].pc \in {"A", "C"}
    /\ return_driver(c, FALSE)
    /\ step_succeeded(c, content)

fetch_with_selenium_error(c, msg) ==
    /\ fetch[c].pc \in {"A", "C"}
    /\ return_driver(c, TRUE)
    /\ step_failed(c, msg)

\* _fetch_with_requests, lines 110-138
fetch_with_requests_page(c, content) ==
    /\ fetch[c].pc \in {"B", "D"}
    /\ step_succeeded(c, content)
    /\ UNCHANGED poolVars

fetch_with_requests_error(c, msg) ==
    /\ fetch[c].pc \in {"B", "D"}
    /\ step_failed(c, msg)
    /\ UNCHANGED poolVars

(***************************************************************************)
(* internal/proxy/driver_pool.py get_chrome_driver_path: the module-level  *)
(* cache of the ChromeDriver path, filled under a lock after a second      *)
(* test, called by every _create_driver.                                   *)
(***************************************************************************)
NumThreads == 3             \* threads that call get_chrome_driver_path
MaxInstallFailures == 2     \* install() calls that raise

Threads == 1..NumThreads

\* result: what the last call returned (None: nothing yet); calls: calls
\* that have returned (history, saturating at 2)
NoCaller == [pc |-> "idle", result |-> None, calls |-> 0]

PathInit ==
    /\ CHROME_DRIVER_PATH = None
    /\ CHROME_DRIVER_LOCK = None
    /\ installs = 0
    /\ failures = 0
    /\ caller = [t \in Threads |-> NoCaller]

\* line 24: if _CHROME_DRIVER_PATH is None
first_check(t) ==
    /\ caller[t].pc = "idle"
    /\ caller' = [caller EXCEPT
           ![t].pc = IF CHROME_DRIVER_PATH = None THEN "acquire" ELSE "return"]
    /\ UNCHANGED <<CHROME_DRIVER_PATH, CHROME_DRIVER_LOCK, installs, failures>>

\* line 25: with _CHROME_DRIVER_LOCK
acquire_lock(t) ==
    /\ caller[t].pc = "acquire"
    /\ CHROME_DRIVER_LOCK = None
    /\ CHROME_DRIVER_LOCK' = t
    /\ caller' = [caller EXCEPT ![t].pc = "locked"]
    /\ UNCHANGED <<CHROME_DRIVER_PATH, installs, failures>>

\* line 26: the test repeated under the lock
path_is_unset_skipped == TRUE

path_is_unset == CHROME_DRIVER_PATH = None

second_check(t) ==
    /\ caller[t].pc = "locked"
    /\ IF path_is_unset
       THEN /\ caller' = [caller EXCEPT ![t].pc = "install"]
            /\ UNCHANGED CHROME_DRIVER_LOCK
       ELSE /\ caller' = [caller EXCEPT ![t].pc = "return"]
            /\ CHROME_DRIVER_LOCK' = None
    /\ UNCHANGED <<CHROME_DRIVER_PATH, installs, failures>>

\* lines 27-29: install() returns a path (the k-th install returns path k),
\* which is stored; the with block ends
install_path(t) ==
    /\ caller[t].pc = "install"
    /\ installs' = installs + 1
    /\ CHROME_DRIVER_PATH' = installs + 1
    /\ CHROME_DRIVER_LOCK' = None
    /\ caller' = [caller EXCEPT ![t].pc = "return"]
    /\ UNCHANGED failures

\* line 28: install() raises; the with block releases the lock and the
\* exception leaves the function
install_raise(t) ==
    /\ caller[t].pc = "install"
    /\ failures < MaxInstallFailures
    /\ failures' = failures + 1
    /\ CHROME_DRIVER_LOCK' = None
    /\ caller' = [caller EXCEPT ![t].pc = "idle"]
    /\ UNCHANGED <<CHROME_DRIVER_PATH, installs>>

\* line 30: return _CHROME_DRIVER_PATH
return_path(t) ==
    /\ caller[t].pc = "return"
    /\ caller' = [caller EXCEPT ![t] =
           [pc |-> "idle", result |-> CHROME_DRIVER_PATH,
            calls |-> Min(caller[t].calls + 1, 2)]]
    /\ UNCHANGED <<CHROME_DRIVER_PATH, CHROME_DRIVER_LOCK, installs, failures>>

(***************************************************************************)
(* internal/proxy/proxy.py ProxyValidator._quick_proxy_test, run by the    *)
(* executor thread c of _test_proxy_batch for one fresh proxy of the       *)
(* batch, as caller c of the validator's DriverPool.                       *)
(* result is what the call returned; raised says that an exception reached *)
(* the handler of line 73 (the wait's TimeoutException is handled at line  *)
(* 68 and does not).                                                       *)
(***************************************************************************)
NoProbe == [pc |-> "idle", proxy |-> None, result |-> FALSE, raised |-> FALSE]

ProbeInit == probe = [c \in Clients |-> NoProbe]

\* the call has returned `result`
returned(c, result, raised) ==
    probe' = [probe EXCEPT ![c].pc = "returned", ![c].result = result,
                           ![c].raised = raised]

\* line 43
quick_proxy_test_get(c, proxy_addr, createOk) ==
    /\ probe[c].pc = "idle"
    /\ get_driver(c, proxy_addr, createOk)
    /\ probe' = [probe EXCEPT ![c] = [NoProbe EXCEPT !.pc = "testing", !.proxy = proxy_addr]]

\* lines 44-45 and 76-77: no driver, return False, nothing to return to the pool
quick_proxy_test_nodriver(c) ==
    /\ probe[c].pc = "testing"
    /\ no_driver(c)
    /\ returned(c, FALSE, FALSE)

\* lines 47-66 and 76-78: the page loaded in time
quick_proxy_test_true(c) ==
    /\ probe[c].pc = "testing"
    /\ return_driver(c, FALSE)
    /\ returned(c, TRUE, FALSE)

\* lines 58-71 and 76-78: the wait timed out, or the load took 5 s or more
quick_proxy_test_false(c) ==
    /\ probe[c].pc = "testing"
    /\ return_driver(c, FALSE)
    /\ returned(c, FALSE, FALSE)

\* lines 73-78: set_page_load_timeout, get or page_source raised
quick_proxy_test_except_no_flag(c) ==
    /\ probe[c].pc = "testing"
    /\ return_driver(c, FALSE)
    /\ returned(c, FALSE, TRUE)

quick_proxy_test_except(c) ==
    /\ probe[c].pc = "testing"
    /\ return_driver(c, TRUE)
    /\ returned(c, FALSE, TRUE)

(***************************************************************************)
(* Initial state: main() has started the gRPC thread, which is             *)
(* constructing the ProxyServicer, and the reload thread, which sleeps.    *)
(***************************************************************************)
ProxyInit ==
    /\ valid_proxies = [v \in Validators |-> EmptyMap]
    /\ failed_proxies = [v \in Validators |-> {}]
    /\ last_validation_time = [v \in Validators |-> 0]
    /\ v_pc = [v \in Validators |-> IF v = "srv" THEN "start" ELSE "idle"]
    /\ v_proxies = [v \in Validators |-> <<>>]
    /\ v_task = [v \in Validators |-> [s \in Sessions |-> NoTask]]
    /\ v_fails = [v \in Validators |-> 0]
    /\ v_order = [v \in Validators |-> [s \in Sessions |-> <<>>]]
    /\ servicer_valid_proxies = EmptyMap
    /\ server_pc = "init"
    /\ reload_pc = "sleep"
    /\ reloads = 0
    /\ new_proxy_map = EmptyMap
    /\ pre_round_map = EmptyMap
    /\ clock = FAILED_TTL + 1
    /\ stats_resp = NoStats
    /\ random_resp = NoRandom
    /\ main_pc = "running"
    /\ current_servicer = FALSE
    /\ failed_at = [v \in Validators |-> NoTimes]

Init == PoolInit /\ ProxyInit /\ FetchInit /\ PathInit /\ ProbeInit

(***************************************************************************)
(* Spec: one DriverPool, its callers, its cleanup thread, close_all.       *)
(***************************************************************************)
Next ==
    \/ \E c \in Clients, p \in Endpoints, ok \in CreateOutcomes :
           get_driver(c, p, ok) /\ UNCHANGED <<proxyVars, fetchVars, pathVars, probeVars>>
    \/ \E c \in Clients : no_driver(c) /\ UNCHANGED <<proxyVars, fetchVars, pathVars, probeVars>>
    \/ \E c \in Clients, e \in BOOLEAN : return_driver(c, e) /\ UNCHANGED <<proxyVars, fetchVars, pathVars, probeVars>>
    \/ cleanup_scan /\ UNCHANGED <<proxyVars, fetchVars, pathVars, probeVars>>
    \/ cleanup_close /\ UNCHANGED <<proxyVars, fetchVars, pathVars, probeVars>>
    \/ close_all /\ UNCHANGED <<proxyVars, fetchVars, pathVars, probeVars>>
    \/ Tick /\ UNCHANGED <<proxyVars, fetchVars, pathVars, probeVars>>
    \/ \E d \in InstIds : Crash(d) /\ UNCHANGED <<proxyVars, fetchVars, pathVars, probeVars>>

Spec == Init /\ [][Next]_vars

(***************************************************************************)
(* SpecValidate: one validation round of the servicer's validator, over    *)
(* candidate lists long enough to reach the quota.                         *)
(***************************************************************************)
AllowedPasses(v, s) ==
    {P \in SUBSET {CurrentFresh(v, s)[i] : i \in 1..Len(CurrentFresh(v, s))} :
        v_fails[v] + Len(CurrentFresh(v, s)) - Cardinality(P) <= MaxFailedProbes}

ValidateNext ==
    \/ round_start("srv") /\ UNCHANGED <<poolVars, fetchVars, pathVars, probeVars>>
    \/ \E n \in 0..MaxCandidates : scrape("srv", n) /\ UNCHANGED <<poolVars, fetchVars, pathVars, probeVars>>
    \/ \E s \in Sessions : \E P \in AllowedPasses("srv", s), rev \in BOOLEAN :
           test_batch("srv", s, P, rev) /\ UNCHANGED <<poolVars, fetchVars, pathVars, probeVars>>
    \/ \E s \in Sessions : batch_timeout("srv", s) /\ UNCHANGED <<poolVars, fetchVars, pathVars, probeVars>>
    \/ \E s \in Sessions : collect("srv", s) /\ UNCHANGED <<poolVars, fetchVars, pathVars, probeVars>>
    \/ \E s \in Sessions : collect_timeout("srv", s) /\ UNCHANGED <<poolVars, fetchVars, pathVars, probeVars>>
    \/ round_finish("srv") /\ UNCHANGED <<poolVars, fetchVars, pathVars, probeVars>>
    \/ initialize_done /\ UNCHANGED <<poolVars, fetchVars, pathVars, probeVars>>

SpecValidate == Init /\ [][ValidateNext]_vars

(***************************************************************************)
(* SpecProxy: the servicer's start-up round, the reload thread and the     *)
(* read-only RPCs, over short candidate lists.                             *)
(***************************************************************************)
AnyPasses(v, s) ==
    SUBSET {CurrentFresh(v, s)[i] : i \in 1..Len(CurrentFresh(v, s))}

ProxyNext ==
    \/ \E v \in Validators : round_start(v) /\ UNCHANGED <<poolVars, fetchVars, pathVars, probeVars>>
    \/ \E v \in Validators, n \in 0..ShortList : scrape(v, n) /\ UNCHANGED <<poolVars, fetchVars, pathVars, probeVars>>
    \/ \E v \in Validators, s \in Sessions :
           \E P \in AnyPasses(v, s), rev \in BOOLEAN : test_batch(v, s, P, rev) /\ UNCHANGED <<poolVars, fetchVars, pathVars, probeVars>>
    \/ \E v \in Validators, s \in Sessions : batch_timeout(v, s) /\ UNCHANGED <<poolVars, fetchVars, pathVars, probeVars>>
    \/ \E v \in Validators, s \in Sessions : collect(v, s) /\ UNCHANGED <<poolVars, fetchVars, pathVars, probeVars>>
    \/ \E v \in Validators, s \in Sessions : collect_timeout(v, s) /\ UNCHANGED <<poolVars, fetchVars, pathVars, probeVars>>
    \/ \E v \in Validators : round_finish(v) /\ UNCHANGED <<poolVars, fetchVars, pathVars, probeVars>>
    \/ initialize_done /\ UNCHANGED <<poolVars, fetchVars, pathVars, probeVars>>
    \/ reload_wake(MaxReloads) /\ UNCHANGED <<poolVars, fetchVars, pathVars, probeVars>>
    \/ reload_done /\ UNCHANGED <<poolVars, fetchVars, pathVars, probeVars>>
    \/ reload_close /\ UNCHANGED <<poolVars, fetchVars, pathVars, probeVars>>
    \/ GetProxyStats /\ UNCHANGED <<poolVars, fetchVars, pathVars, probeVars>>
    \/ \E session \in Sessions \cup {"", "Unknown"}, pick \in 1..QUOTA :
           GetRandomProxy(session, pick) /\ UNCHANGED <<poolVars, fetchVars, pathVars, probeVars>>

SpecProxy == Init /\ [][ProxyNext]_vars

(***************************************************************************)
(* SpecReload: the reload thread alone, over several iterations of its     *)
(* loop, each a round of its validator over a short candidate list.        *)
(***************************************************************************)
ReloadNext ==
    \/ round_start("bg") /\ UNCHANGED <<poolVars, fetchVars, pathVars, probeVars>>
    \/ \E n \in 0..ShortList : scrape("bg", n) /\ UNCHANGED <<poolVars, fetchVars, pathVars, probeVars>>
    \/ \E s \in Sessions : \E P \in AnyPasses("bg", s), rev \in BOOLEAN :
           test_batch("bg", s, P, rev) /\ UNCHANGED <<poolVars, fetchVars, pathVars, probeVars>>
    \/ \E s \in Sessions : batch_timeout("bg", s) /\ UNCHANGED <<poolVars, fetchVars, pathVars, probeVars>>
    \/ \E s \in Sessions : collect("bg", s) /\ UNCHANGED <<poolVars, fetchVars, pathVars, probeVars>>
    \/ \E s \in Sessions : collect_timeout("bg", s) /\ UNCHANGED <<poolVars, fetchVars, pathVars, probeVars>>
    \/ round_finish("bg") /\ UNCHANGED <<poolVars, fetchVars, pathVars, probeVars>>
    \/ reload_wake(ReloadRounds) /\ UNCHANGED <<poolVars, fetchVars, pathVars, probeVars>>
    \/ reload_done /\ UNCHANGED <<poolVars, fetchVars, pathVars, probeVars>>
    \/ reload_close /\ UNCHANGED <<poolVars, fetchVars, pathVars, probeVars>>

SpecReload == Init /\ [][ReloadNext]_vars

(***************************************************************************)
(* SpecFetch: the servicer's start-up round over a short candidate list,   *)
(* then FetchContent calls run by the RPC worker threads.                  *)
(***************************************************************************)
FetchNext ==
    \/ round_start("srv") /\ UNCHANGED <<poolVars, fetchVars, pathVars, probeVars>>
    \/ \E n \in 0..FetchCandidates : scrape("srv", n) /\ UNCHANGED <<poolVars, fetchVars, pathVars, probeVars>>
    \/ \E s \in Sessions : \E P \in AnyPasses("srv", s), rev \in BOOLEAN :
           test_batch("srv", s, P, rev) /\ UNCHANGED <<poolVars, fetchVars, pathVars, probeVars>>
    \/ \E s \in Sessions : batch_timeout("srv", s) /\ UNCHANGED <<poolVars, fetchVars, pathVars, probeVars>>
    \/ \E s \in Sessions : collect("srv", s) /\ UNCHANGED <<poolVars, fetchVars, pathVars, probeVars>>
    \/ \E s \in Sessions : collect_timeout("srv", s) /\ UNCHANGED <<poolVars, fetchVars, pathVars, probeVars>>
    \/ round_finish("srv") /\ UNCHANGED <<poolVars, fetchVars, pathVars, probeVars>>
    \/ initialize_done /\ UNCHANGED <<poolVars, fetchVars, pathVars, probeVars>>
    \/ GetProxyStats /\ UNCHANGED <<poolVars, fetchVars, pathVars, probeVars>>
    \/ \E c \in Workers, session \in RequestSessions, proxy \in BOOLEAN, pick \in 1..QUOTA :
           FetchContent(c, session, proxy, pick) /\ UNCHANGED <<proxyVars, pathVars, probeVars>>
    \/ \E c \in Workers, ok \in CreateOutcomes :
           fetch_with_selenium_get(c, ok) /\ UNCHANGED <<proxyVars, pathVars, probeVars>>
    \/ \E c \in Workers : fetch_with_selenium_nodriver(c) /\ UNCHANGED <<proxyVars, pathVars, probeVars>>
    \/ \E c \in Workers, content \in Pages :
           fetch_with_selenium_page(c, content) /\ UNCHANGED <<proxyVars, pathVars, probeVars>>
    \/ \E c \in Workers, msg \in SeleniumErrors :
           fetch_with_selenium_error(c, msg) /\ UNCHANGED <<proxyVars, pathVars, probeVars>>
    \/ \E c \in Workers, content \in Pages :
           fetch_with_requests_page(c, content) /\ UNCHANGED <<proxyVars, pathVars, probeVars>>
    \/ \E c \in Workers, msg \in RequestsErrors :
           fetch_with_requests_error(c, msg) /\ UNCHANGED <<proxyVars, pathVars, probeVars>>

SpecFetch == Init /\ [][FetchNext]_vars

(***************************************************************************)
(* main.py main(): the signal handlers are installed, then the gRPC thread *)
(* (start_grpc_server_wrapper, which constructs the ProxyServicer) and the *)
(* reload thread (reload_proxies_background) are started, in this order.   *)
(* Init above is the state in which both have just been started.           *)
(***************************************************************************)
MainInit ==
    /\ PoolInit
    /\ FetchInit
    /\ PathInit
    /\ ProbeInit
    /\ valid_proxies = [v \in Validators |-> EmptyMap]
    /\ failed_proxies = [v \in Validators |-> {}]
    /\ last_validation_time = [v \in Validators |-> 0]
    /\ v_pc = [v \in Validators |-> "idle"]
    /\ v_proxies = [v \in Validators |-> <<>>]
    /\ v_task = [v \in Validators |-> [s \in Sessions |-> NoTask]]
    /\ v_fails = [v \in Validators |-> 0]
    /\ v_order = [v \in Validators |-> [s \in Sessions |-> <<>>]]
    /\ servicer_valid_proxies = EmptyMap
    /\ server_pc = "unstarted"
    /\ reload_pc = "unstarted"
    /\ reloads = 0
    /\ new_proxy_map = EmptyMap
    /\ pre_round_map = EmptyMap
    /\ clock = FAILED_TTL + 1
    /\ stats_resp = NoStats
    /\ random_resp = NoRandom
    /\ main_pc = "start"
    /\ current_servicer = FALSE
    /\ failed_at = [v \in Validators |-> NoTimes]

\* main.py lines 103-104
start_grpc_thread ==
    /\ main_pc = "start"
    /\ main_pc' = "grpc_started"
    /\ server_pc' = "init"
    /\ v_pc' = [v_pc EXCEPT !["srv"] = "start"]
    /\ UNCHANGED <<valid_proxies, failed_proxies, last_validation_time, v_proxies,
                   v_task, v_fails, v_order, servicer_valid_proxies, reload_pc, reloads,
                   new_proxy_map, pre_round_map, clock, stats_resp, random_resp,
                   current_servicer, failed_at>>

\* main.py lines 107-108
start_reload_thread ==
    /\ main_pc = "grpc_started"
    /\ main_pc' = "running"
    /\ reload_pc' = "sleep"
    /\ UNCHANGED <<valid_proxies, failed_proxies, last_validation_time, v_pc, v_proxies,
                   v_task, v_fails, v_order, servicer_valid_proxies, server_pc, reloads,
                   new_proxy_map, pre_round_map, clock, stats_resp, random_resp,
                   current_servicer, failed_at>>

(***************************************************************************)
(* SpecMain: main() from its first line: the two threads are started, the  *)
(* servicer warms up, the reload thread runs, the read-only RPCs are       *)
(* served.                                                                 *)
(***************************************************************************)
MainNext ==
    \/ start_grpc_thread /\ UNCHANGED <<poolVars, fetchVars, pathVars, probeVars>>
    \/ start_reload_thread /\ UNCHANGED <<poolVars, fetchVars, pathVars, probeVars>>
    \/ \E v \in Validators : round_start(v) /\ UNCHANGED <<poolVars, fetchVars, pathVars, probeVars>>
    \/ \E v \in Validators, n \in 0..ShortList : scrape(v, n) /\ UNCHANGED <<poolVars, fetchVars, pathVars, probeVars>>
    \/ \E v \in Validators, s \in Sessions :
           \E P \in AnyPasses(v, s), rev \in BOOLEAN : test_batch(v, s, P, rev) /\ UNCHANGED <<poolVars, fetchVars, pathVars, probeVars>>
    \/ \E v \in Validators, s \in Sessions : batch_timeout(v, s) /\ UNCHANGED <<poolVars, fetchVars, pathVars, probeVars>>
    \/ \E v \in Validators, s \in Sessions : collect(v, s) /\ UNCHANGED <<poolVars, fetchVars, pathVars, probeVars>>
    \/ \E v \in Validators, s \in Sessions : collect_timeout(v, s) /\ UNCHANGED <<poolVars, fetchVars, pathVars, probeVars>>
    \/ \E v \in Validators : round_finish(v) /\ UNCHANGED <<poolVars, fetchVars, pathVars, probeVars>>
    \/ initialize_done /\ UNCHANGED <<poolVars, fetchVars, pathVars, probeVars>>
    \/ reload_wake(MaxReloads) /\ UNCHANGED <<poolVars, fetchVars, pathVars, probeVars>>
    \/ reload_done /\ UNCHANGED <<poolVars, fetchVars, pathVars, probeVars>>
    \/ reload_close /\ UNCHANGED <<poolVars, fetchVars, pathVars, probeVars>>
    \/ GetProxyStats /\ UNCHANGED <<poolVars, fetchVars, pathVars, probeVars>>

SpecMain == MainInit /\ [][MainNext]_vars

(***************************************************************************)
(* main.py signal_handler (SIGINT, SIGTERM) and ProxyServicer.close_pools. *)
(* In SpecSignal the DriverPool modelled is the one of the servicer's      *)
(* validator, whose probes (_quick_proxy_test) are its callers during the  *)
(* start-up round; the servicer's own pool holds nothing there.            *)
(***************************************************************************)
\* server.py lines 270-274
close_pools == close_all

\* main.py lines 24-29: sys.exit(0) ends the process, daemon threads included
signal_handler ==
    /\ main_pc # "exited"
    /\ IF current_servicer THEN close_pools ELSE UNCHANGED poolVars
    /\ main_pc' = "exited"
    /\ UNCHANGED <<valid_proxies, failed_proxies, last_validation_time, v_pc, v_proxies,
                   v_task, v_fails, v_order, servicer_valid_proxies, server_pc,
                   reload_pc, reloads, new_proxy_map, pre_round_map, clock, stats_resp,
                   random_resp, current_servicer, failed_at>>

\* the process runs
Alive == main_pc # "exited"

\* a probe of the current batch of the start-up round may be running
Probing(s) == v_pc["srv"] = "sessions" /\ v_task["srv"][s].status = "running"

\* every probe submitted has returned its driver
ProbesDone == \A c \in Clients : client[c].pc = "idle"

SignalNext ==
    \/ Alive /\ start_grpc_thread /\ UNCHANGED <<poolVars, fetchVars, pathVars, probeVars>>
    \/ Alive /\ start_reload_thread /\ UNCHANGED <<poolVars, fetchVars, pathVars, probeVars>>
    \/ Alive /\ round_start("srv") /\ UNCHANGED <<poolVars, fetchVars, pathVars, probeVars>>
    \/ \E n \in 0..FetchCandidates :
           Alive /\ scrape("srv", n) /\ UNCHANGED <<poolVars, fetchVars, pathVars, probeVars>>
    \/ \E s \in Sessions : \E P \in AnyPasses("srv", s), rev \in BOOLEAN :
           Alive /\ ProbesDone /\ test_batch("srv", s, P, rev)
               /\ UNCHANGED <<poolVars, fetchVars, pathVars, probeVars>>
    \/ \E s \in Sessions :
           Alive /\ ProbesDone /\ batch_timeout("srv", s) /\ UNCHANGED <<poolVars, fetchVars, pathVars, probeVars>>
    \/ \E s \in Sessions : Alive /\ collect("srv", s) /\ UNCHANGED <<poolVars, fetchVars, pathVars, probeVars>>
    \/ \E s \in Sessions :
           Alive /\ collect_timeout("srv", s) /\ UNCHANGED <<poolVars, fetchVars, pathVars, probeVars>>
    \/ Alive /\ round_finish("srv") /\ UNCHANGED <<poolVars, fetchVars, pathVars, probeVars>>
    \/ Alive /\ initialize_done /\ UNCHANGED <<poolVars, fetchVars, pathVars, probeVars>>
    \/ \E c \in Clients, s \in Sessions, ok \in CreateOutcomes :
           \E p \in SeqToSet(CurrentFresh("srv", s)) :
               Alive /\ Probing(s) /\ get_driver(c, p, ok)
                   /\ UNCHANGED <<proxyVars, fetchVars, pathVars, probeVars>>
    \/ \E c \in Clients : Alive /\ no_driver(c) /\ UNCHANGED <<proxyVars, fetchVars, pathVars, probeVars>>
    \/ \E c \in Clients, e \in BOOLEAN :
           Alive /\ return_driver(c, e) /\ UNCHANGED <<proxyVars, fetchVars, pathVars, probeVars>>
    \/ signal_handler /\ UNCHANGED <<fetchVars, pathVars, probeVars>>

SpecSignal == MainInit /\ [][SignalNext]_vars

(***************************************************************************)
(* SpecLoop: the reload thread with the DriverPool of its validator. The   *)
(* pool's callers are the probes (_quick_proxy_test) of the running batch; *)
(* a batch ends when its probes have returned their drivers.               *)
(***************************************************************************)
ProbingOf(v, s) == v_pc[v] = "sessions" /\ v_task[v][s].status = "running"

LoopNext ==
    \/ round_start("bg") /\ UNCHANGED <<poolVars, fetchVars, pathVars, probeVars>>
    \/ \E n \in 0..ShortList : scrape("bg", n) /\ UNCHANGED <<poolVars, fetchVars, pathVars, probeVars>>
    \/ \E s \in Sessions : \E P \in AnyPasses("bg", s), rev \in BOOLEAN :
           ProbesDone /\ test_batch("bg", s, P, rev) /\ UNCHANGED <<poolVars, fetchVars, pathVars, probeVars>>
    \/ \E s \in Sessions :
           ProbesDone /\ batch_timeout("bg", s) /\ UNCHANGED <<poolVars, fetchVars, pathVars, probeVars>>
    \/ \E s \in Sessions : collect("bg", s) /\ UNCHANGED <<poolVars, fetchVars, pathVars, probeVars>>
    \/ \E s \in Sessions : collect_timeout("bg", s) /\ UNCHANGED <<poolVars, fetchVars, pathVars, probeVars>>
    \/ round_finish("bg") /\ UNCHANGED <<poolVars, fetchVars, pathVars, probeVars>>
    \/ \E c \in Clients, s \in Sessions, ok \in CreateOutcomes :
           \E p \in SeqToSet(CurrentFresh("bg", s)) :
               ProbingOf("bg", s) /\ get_driver(c, p, ok)
                   /\ UNCHANGED <<proxyVars, fetchVars, pathVars, probeVars>>
    \/ \E c \in Clients : no_driver(c) /\ UNCHANGED <<proxyVars, fetchVars, pathVars, probeVars>>
    \/ \E c \in Clients, e \in BOOLEAN :
           return_driver(c, e) /\ UNCHANGED <<proxyVars, fetchVars, pathVars, probeVars>>
    \/ reload_wake(LoopRounds) /\ UNCHANGED <<poolVars, fetchVars, pathVars, probeVars>>
    \/ reload_done /\ UNCHANGED <<poolVars, fetchVars, pathVars, probeVars>>
    \/ ProbesDone /\ reload_raise /\ UNCHANGED <<poolVars, fetchVars, pathVars, probeVars>>
    \/ reload_close /\ close_driver_pool /\ UNCHANGED <<fetchVars, pathVars, probeVars>>

SpecLoop == Init /\ [][LoopNext]_vars
(***************************************************************************)
(* SpecRelease: the servicer's thread of control and the DriverPool it     *)
(* uses.  During _initialize that is the pool of its validator, whose      *)
(* callers are the probes of the running batch (executor thread c probes   *)
(* the c-th fresh proxy); once the servicer serves it is its own pool,     *)
(* whose callers are the selenium steps of FetchContent.                   *)
(***************************************************************************)
\* _test_proxy_batch line 92-100: every future of the batch has completed
\* (the executor's __exit__ waits for them)
ProbesReturned(s) ==
    \A c \in Clients :
        IF c <= Len(CurrentFresh("srv", s)) THEN probe[c].pc = "returned"
        ELSE probe[c].pc = "idle"

\* lines 103-104: the proxies whose future.result() is True
ProbePasses == {probe[c].proxy : c \in {k \in Clients : probe[k].pc = "returned" /\ probe[k].result}}

\* the futures of the batch are dropped when _test_proxy_batch returns
futures_dropped == probe' = [c \in Clients |-> NoProbe]

\* server.py line 27: self.driver_pool = DriverPool(...), which no caller
\* has used before the servicer serves; the pool variables stand for it
\* from here on
servicer_driver_pool ==
    /\ available_drivers' = <<>>
    /\ active_drivers' = {}
    /\ inst' = [i \in InstIds |-> NoInstance]
    /\ nInst' = 0
    /\ drivers_to_close' = <<>>
    /\ cleanup_pc' = "sleep"
    /\ client' = [c \in Clients |-> [pc |-> "idle", held |-> NoInst, want |-> None]]
    /\ UNCHANGED now

ReleaseNext ==
    \/ round_start("srv") /\ UNCHANGED <<poolVars, fetchVars, pathVars, probeVars>>
    \/ \E n \in 0..FetchCandidates :
           scrape("srv", n) /\ UNCHANGED <<poolVars, fetchVars, pathVars, probeVars>>
    \/ \E s \in Sessions, rev \in BOOLEAN :
           ProbesReturned(s) /\ test_batch("srv", s, ProbePasses, rev) /\ futures_dropped
               /\ UNCHANGED <<poolVars, fetchVars, pathVars>>
    \/ \E s \in Sessions :
           ProbesReturned(s) /\ batch_timeout("srv", s) /\ futures_dropped
               /\ UNCHANGED <<poolVars, fetchVars, pathVars>>
    \/ \E s \in Sessions : collect("srv", s) /\ UNCHANGED <<poolVars, fetchVars, pathVars, probeVars>>
    \/ \E s \in Sessions :
           collect_timeout("srv", s) /\ UNCHANGED <<poolVars, fetchVars, pathVars, probeVars>>
    \/ round_finish("srv") /\ UNCHANGED <<poolVars, fetchVars, pathVars, probeVars>>
    \/ initialize_done /\ servicer_driver_pool /\ UNCHANGED <<fetchVars, pathVars, probeVars>>
    \/ \E c \in Clients, s \in Sessions, ok \in CreateOutcomes :
           /\ Probing(s)
           /\ c <= Len(CurrentFresh("srv", s))
           /\ quick_proxy_test_get(c, CurrentFresh("srv", s)[c], ok)
           /\ UNCHANGED <<proxyVars, fetchVars, pathVars>>
    \/ \E c \in Clients : quick_proxy_test_nodriver(c) /\ UNCHANGED <<proxyVars, fetchVars, pathVars>>
    \/ \E c \in Clients : quick_proxy_test_true(c) /\ UNCHANGED <<proxyVars, fetchVars, pathVars>>
    \/ \E c \in Clients : quick_proxy_test_false(c) /\ UNCHANGED <<proxyVars, fetchVars, pathVars>>
    \/ \E c \in Clients : quick_proxy_test_except(c) /\ UNCHANGED <<proxyVars, fetchVars, pathVars>>
    \/ \E c \in Workers, session \in RequestSessions, proxy \in BOOLEAN, pick \in 1..QUOTA :
           FetchContent(c, session, proxy, pick) /\ UNCHANGED <<proxyVars, pathVars, probeVars>>
    \/ \E c \in Workers, ok \in CreateOutcomes :
           fetch_with_selenium_get(c, ok) /\ UNCHANGED <<proxyVars, pathVars, probeVars>>
    \/ \E c \in Workers :
           fetch_with_selenium_nodriver(c) /\ UNCHANGED <<proxyVars, pathVars, probeVars>>
    \/ \E c \in Workers, content \in Pages :
           fetch_with_selenium_page(c, content) /\ UNCHANGED <<proxyVars, pathVars, probeVars>>
    \/ \E c \in Workers, msg \in SeleniumErrors :
           fetch_with_selenium_error(c, msg) /\ UNCHANGED <<proxyVars, pathVars, probeVars>>
    \/ \E c \in Workers, content \in Pages :
           fetch_with_requests_page(c, content) /\ UNCHANGED <<proxyVars, pathVars, probeVars>>
    \/ \E c \in Workers, msg \in RequestsErrors :
           fetch_with_requests_error(c, msg) /\ UNCHANGED <<proxyVars, pathVars, probeVars>>
    \/ \E d \in InstIds : Crash(d) /\ UNCHANGED <<proxyVars, fetchVars, pathVars, probeVars>>

SpecRelease == Init /\ [][ReleaseNext]_vars

(***************************************************************************)
(* SpecPath: threads calling get_chrome_driver_path concurrently, each any *)
(* number of times.                                                        *)
(***************************************************************************)
PathNext ==
    \/ \E t \in Threads : first_check(t) /\ UNCHANGED <<poolVars, proxyVars, fetchVars, probeVars>>
    \/ \E t \in Threads : acquire_lock(t) /\ UNCHANGED <<poolVars, proxyVars, fetchVars, probeVars>>
    \/ \E t \in Threads : second_check(t) /\ UNCHANGED <<poolVars, proxyVars, fetchVars, probeVars>>
    \/ \E t \in Threads : install_path(t) /\ UNCHANGED <<poolVars, proxyVars, fetchVars, probeVars>>
    \/ \E t \in Threads : install_raise(t) /\ UNCHANGED <<poolVars, proxyVars, fetchVars, probeVars>>
    \/ \E t \in Threads : return_path(t) /\ UNCHANGED <<poolVars, proxyVars, fetchVars, probeVars>>

SpecPath == Init /\ [][PathNext]_vars
(***************************************************************************)
(*                              Properties                                 *)
(***************************************************************************)
Allocated(d) == inst[d].driver.status # "none"

Destroyed(d) == inst[d].driver.status = "quit"

InPool(d) == d \in active_drivers \/ d \in SeqToSet(available_drivers)

Held(d) == \E c \in Clients : client[c].pc = "using" /\ client[c].held = d

\* C1: the instances in the in-use set plus those in the available queue
\* never exceed max_drivers.
C1_PoolCapacity ==
    Cardinality(active_drivers) + Len(available_drivers) <= max_drivers

\* C2: an instance returned by get_driver(E) is bound to E (its current_proxy
\* and the proxy of its browser), on the reuse, the reconfigure and the
\* creation path alike; get_driver returns None only when the available
\* queue holds no healthy instance it could reuse for E.
C2_Bound ==
    \A c \in Clients :
        client[c].pc = "using" =>
            /\ inst[client[c].held].current_proxy = client[c].want
            /\ inst[client[c].held].driver.proxy = client[c].want

C2_NoneOnlyWithoutMatch ==
    \A c \in Clients :
        (client[c].pc = "idle" /\ client'[c].pc = "nodriver") =>
            ~\E d \in SeqToSet(available_drivers) :
                /\ inst[d].driver.status = "live"
                /\ inst[d].current_proxy = client'[c].want
                /\ inst[d].error_count < MaxErrors

C2_AcquireBinding == []C2_Bound /\ [][C2_NoneOnlyWithoutMatch]_vars

\* C2 witness: a caller that asked for no proxy holds an instance that was
\* constructed for a proxy and reconfigured at capacity.
C2_Witness ==
    \E c \in Clients :
        /\ client[c].pc = "using"
        /\ client[c].want = None
        /\ inst[client[c].held].ctor_proxy # None

C3_FollowsBrowser ==
    \A d \in InstIds : inst[d].current_proxy = inst[d].driver.proxy

C3_RetargetOnlyIdle ==
    \A d \in InstIds :
        (Allocated(d) /\ ~Destroyed(d)' /\ inst'[d].current_proxy # inst[d].current_proxy)
            => /\ d \in SeqToSet(available_drivers)
               /\ d \notin active_drivers
               /\ d \in active_drivers'
               /\ inst'[d].driver.status = "live"
               /\ inst'[d].error_count = 0

C4_Evicted ==
    \A d \in InstIds :
        inst[d].error_count >= MaxErrors =>
            Destroyed(d) /\ ~InPool(d) /\ ~Held(d)
                /\ d \notin SeqToSet(drivers_to_close)

C4_StaysEvicted ==
    \A d \in InstIds : inst[d].error_count >= MaxErrors => inst'[d] = inst[d]

C5_ScanStep ==
    (cleanup_pc = "sleep" /\ cleanup_pc' = "close") =>
        /\ \A d \in SeqToSet(available_drivers) :
               IF now - inst[d].last_used > idle_timeout
               THEN d \notin SeqToSet(available_drivers')
                        /\ d \in SeqToSet(drivers_to_close')
               ELSE d \in SeqToSet(available_drivers')
                        /\ d \notin SeqToSet(drivers_to_close')
        /\ Len(available_drivers') + Len(drivers_to_close') = Len(available_drivers)

C5_CloseStep ==
    (cleanup_pc = "close" /\ cleanup_pc' = "sleep") =>
        /\ \A d \in SeqToSet(drivers_to_close) : Destroyed(d)' /\ ~InPool(d)'
        /\ available_drivers' = available_drivers

C5_IdleEviction == [][C5_ScanStep /\ C5_CloseStep]_vars

\* C5 witness: a pass that removed an idle instance and left a recent one.
C5_Witness ==
    /\ cleanup_pc = "close"
    /\ drivers_to_close # <<>>
    /\ available_drivers # <<>>

\* C6: every list stored for a session, in a validator's map or in the map
\* the servicer serves, has at most 20 entries.
C6_ValidationQuota ==
    /\ \A v \in Validators : \A s \in DOMAIN valid_proxies[v] :
           Len(valid_proxies[v][s]) <= QUOTA
    /\ \A s \in DOMAIN servicer_valid_proxies :
           Len(servicer_valid_proxies[s]) <= QUOTA
    /\ \A s \in DOMAIN new_proxy_map : Len(new_proxy_map[s]) <= QUOTA

\* C6 witness: more than 20 probes succeeded and the served list has 20.
C6_Witness ==
    \E s \in DOMAIN servicer_valid_proxies :
        /\ Len(v_order["srv"][s]) > QUOTA
        /\ Len(servicer_valid_proxies[s]) = QUOTA

\* C7: a GetProxyStats response produced while a reload round is in progress
\* gives the counts of a map that a finished round returned whole: the map
\* the servicer held when the round began or the one it holds since; the
\* servicer's map is only ever replaced by the complete result of a round.
C7_WholeCounts ==
    stats_resp.during =>
        \/ stats_resp.stats = StatsOf(stats_resp.pre)
        \/ stats_resp.stats = StatsOf(servicer_valid_proxies)

C7_ReplacedWhole ==
    servicer_valid_proxies' # servicer_valid_proxies =>
        /\ v_pc["srv"] = "return"
        /\ servicer_valid_proxies' = valid_proxies["srv"]

C7_AtomicReplacement == []C7_WholeCounts /\ [][C7_ReplacedWhole]_vars

\* C7 witness: a response produced while the reload validator's own map is
\* cleared or partly filled and the published map is not empty.
C7_Witness ==
    /\ stats_resp.during
    /\ reload_pc = "round"
    /\ v_pc["bg"] \in {"scrape", "sessions"}
    /\ stats_resp.stats.total_valid_proxies > 0

\* C8: once an iteration of the reload loop has completed, the map the RPCs
\* read is the map that iteration's round returned.
C8_ReloadPublishes ==
    (reloads >= 1 /\ reload_pc = "sleep") => served_map = new_proxy_map

Ladder == <<"A", "B", "C", "D">>

StepIndex(step) == CHOOSE i \in 1..Len(Ladder) : Ladder[i] = step

AllFailed(log) == \A i \in 1..Len(log) : ~log[i].ok

\* C9: in every FetchContent call the steps attempted so far are consecutive
\* steps of A, B, C, D, beginning at A (proxy steps apply) or at C; every
\* step before the last attempted one failed; a call whose last step
\* succeeded has ended with that step's bytes as its content; the step a
\* running call is at is the one after its last failed step.
C9_FallbackLadder ==
    \A c \in Clients :
        LET f == fetch[c]
            log == f.attempts
            n == Len(log)
        IN  /\ n > 0 => log[1].step = first_step(f.session, f.proxy)
            /\ \A i \in 1..(n - 1) :
                   /\ ~log[i].ok
                   /\ StepIndex(log[i + 1].step) = StepIndex(log[i].step) + 1
            /\ (n > 0 /\ log[n].ok) =>
                   /\ f.pc = "done"
                   /\ f.response = [code |-> "OK", details |-> "", content |-> log[n].out]
            /\ f.response.code = "OK" => (n > 0 /\ log[n].ok)
            /\ f.pc \in {"A", "B", "C", "D"} =>
                   /\ AllFailed(log)
                   /\ IF n = 0 THEN f.pc = first_step(f.session, f.proxy)
                      ELSE StepIndex(f.pc) = StepIndex(log[n].step) + 1

\* C9 witness: a call whose step A failed and whose step B succeeded has
\* ended with B's bytes.
C9_Witness ==
    \E c \in Clients :
        /\ fetch[c].pc = "done"
        /\ Len(fetch[c].attempts) = 2
        /\ fetch[c].attempts[1].step = "A" /\ ~fetch[c].attempts[1].ok
        /\ fetch[c].attempts[2].step = "B" /\ fetch[c].attempts[2].ok
        /\ fetch[c].response.content = fetch[c].attempts[2].out

\* C10: a call that has ended with every attempted step failed returns
\* INTERNAL with empty content and, as details, the message of step D, its
\* last step; INTERNAL is returned in no other case.
C10_InternalIsLastError ==
    \A c \in Clients :
        LET f == fetch[c]
            log == f.attempts
            n == Len(log)
        IN  /\ (f.pc = "done" /\ n > 0 /\ AllFailed(log)) =>
                   /\ log[n].step = "D"
                   /\ f.response = [code |-> "INTERNAL", details |-> log[n].out,
                                    content |-> ""]
            /\ f.response.code = "INTERNAL" =>
                   /\ f.pc = "done" /\ n > 0 /\ AllFailed(log)
                   /\ log[n].step = "D"
                   /\ f.response.details = log[n].out

\* C10 witness: all four steps failed, B and D with different messages.
C10_Witness ==
    \E c \in Clients :
        /\ fetch[c].response.code = "INTERNAL"
        /\ Len(fetch[c].attempts) = 4
        /\ fetch[c].attempts[2].out # fetch[c].attempts[4].out

\* C11: a FetchContent call with an empty or unregistered session name ends
\* at once with INVALID_ARGUMENT and empty content, having attempted no
\* ladder step; the step that serves it leaves the pool unchanged.
C11_Rejected ==
    \A c \in Workers :
        (fetch[c].pc # "idle" /\ fetch[c].session \notin Sessions) =>
            /\ fetch[c].pc = "done"
            /\ fetch[c].attempts = <<>>
            /\ fetch[c].response.code = "INVALID_ARGUMENT"
            /\ fetch[c].response.content = ""

C11_PoolUntouched ==
    \A c \in Workers :
        (fetch'[c] # fetch[c] /\ fetch'[c].session \notin Sessions) =>
            /\ UNCHANGED poolVars
            /\ fetch'[c].pc = "done"

C11_InvalidSession == []C11_Rejected /\ [][C11_PoolUntouched]_vars

\* C11 witness: a call for an unregistered session was rejected while the
\* pool holds an idle instance.
C11_Witness ==
    \E c \in Workers :
        /\ fetch[c].pc = "done"
        /\ fetch[c].session = "Unknown"
        /\ fetch[c].response.code = "INVALID_ARGUMENT"
        /\ available_drivers # <<>>

\* C12: a GetRandomProxy response is INVALID_ARGUMENT for the empty session
\* name, success=false with an empty proxy for an unregistered session,
\* success=false for a registered session without valid proxies, and
\* otherwise success=true with a member of the served list of the session;
\* success=true exactly when the session is registered and its list is not
\* empty.
C12_Response ==
    random_resp' # random_resp =>
        LET r == random_resp'
            known == r.session \in Sessions
            list == IF r.session \in DOMAIN servicer_valid_proxies
                    THEN servicer_valid_proxies[r.session] ELSE <<>>
        IN  /\ r.session = "" => (r.code = "INVALID_ARGUMENT" /\ ~r.success)
            /\ (r.session # "" /\ ~known) =>
                   (r.code = "OK" /\ ~r.success /\ r.proxy = None)
            /\ (known /\ list = <<>>) => (r.code = "OK" /\ ~r.success)
            /\ r.success <=> (known /\ list # <<>>)
            /\ r.success => r.proxy \in SeqToSet(list)

C12_GetRandomProxy == [][C12_Response]_vars

\* C12 witness: a successful response whose proxy is the second candidate.
C12_Witness ==
    /\ random_resp.served
    /\ random_resp.success
    /\ random_resp.proxy = 2

\* C13: a GetProxyStats response gives, for each session of the served map,
\* the length of its list, and as total the sum of the lengths (no session
\* and 0 for the empty map); the call changes neither the served map, nor a
\* validator's map, nor the pool.
C13_Snapshot ==
    stats_resp' # stats_resp =>
        LET r == stats_resp'.stats
            m == servicer_valid_proxies
        IN  /\ DOMAIN r.proxy_count_by_session = DOMAIN m
            /\ \A s \in DOMAIN m : r.proxy_count_by_session[s] = Len(m[s])
            /\ r.total_valid_proxies = SumLens(m, DOMAIN m)
            /\ m = EmptyMap => r.total_valid_proxies = 0
            /\ UNCHANGED <<servicer_valid_proxies, valid_proxies, poolVars>>

C13_StatsReadOnly == [][C13_Snapshot]_vars

\* C13 witness: a response counting two proxies, given while the pool holds
\* an idle instance.
C13_Witness ==
    /\ stats_resp.served
    /\ stats_resp.stats.total_valid_proxies = 2
    /\ available_drivers # <<>>

\* a round of validator v has ended
RoundEnded(v) == v_pc[v] \in {"return", "idle"} /\ last_validation_time[v] > 0

\* neither as_completed(timeout=30) nor future.result(timeout=120) gave up
NoTimeout(v, s) ==
    v_proxies[v] # <<>> => (v_task[v][s].status = "done" /\ ~v_task[v][s].lost)

\* the list the validator's map holds for s, empty when s has no entry
StoredList(v, s) ==
    IF s \in DOMAIN valid_proxies[v] THEN valid_proxies[v][s] ELSE <<>>

C15_WarmupBeforeScheduler ==
    /\ reload_pc # "unstarted" => server_pc = "serving"
    /\ stats_resp.served => server_pc = "serving"

\* C15 (amended): the start-up round runs to completion inside the
\* ProxyServicer constructor before any RPC is served, and the map the RPCs
\* read is final by then; the reload thread is started right after the gRPC
\* thread, whether or not the start-up round has completed.
C15_WarmupBeforeServing ==
    /\ server_pc = "serving" =>
           (v_pc["srv"] = "idle" /\ last_validation_time["srv"] > 0)
    /\ stats_resp.served => server_pc = "serving"
    /\ reload_pc # "unstarted" => server_pc # "unstarted"

C15_ServedMapFinal ==
    stats_resp.served => servicer_valid_proxies' = servicer_valid_proxies

C15_StartupOrdering == []C15_WarmupBeforeServing /\ [][C15_ServedMapFinal]_vars

\* C15 witness: the reload thread runs a round while the start-up round is
\* still probing.
C15_Witness ==
    /\ server_pc = "init"
    /\ v_pc["srv"] = "sessions"
    /\ reload_pc = "round"
    /\ v_pc["bg"] = "sessions"

\* C16: once the process has exited on a signal, no browser of the pool is
\* live and the pool is empty.
C16_SignalClosesPools ==
    main_pc = "exited" =>
        /\ \A d \in InstIds : inst[d].driver.status # "live"
        /\ active_drivers = {}
        /\ available_drivers = <<>>

PlacesOf(d) ==
    (IF d \in active_drivers THEN {"active"} ELSE {})
    \cup (IF d \in SeqToSet(available_drivers) THEN {"available"} ELSE {})
    \cup (IF d \in SeqToSet(drivers_to_close) THEN {"to_close"} ELSE {})

\* C18 as stated: every instance that was constructed and not quit is in
\* exactly one of the available queue and the active dict, whenever no
\* pool operation is in progress under the lock.
C18_ExactlyOne ==
    \A d \in InstIds :
        (Allocated(d) /\ ~Destroyed(d)) =>
            ((d \in active_drivers) # (d \in SeqToSet(available_drivers)))

\* C18 amended: every instance that was constructed and not quit is in
\* exactly one of the active dict, the available queue and the cleanup
\* thread's drivers_to_close list (removed from the queue under the lock,
\* quit after the lock is released); no instance is ever in two of them,
\* and the queue holds no instance twice.
C18_ExactlyOnePlace ==
    /\ \A d \in InstIds :
           /\ Cardinality(PlacesOf(d)) <= 1
           /\ (Allocated(d) /\ ~Destroyed(d)) => Cardinality(PlacesOf(d)) = 1
    /\ Len(available_drivers) = Cardinality(SeqToSet(available_drivers))

\* C18 witness: the cleanup thread has released the lock and holds a live
\* instance it took off the queue, while a caller has one in use.
C18_Witness ==
    /\ cleanup_pc = "close"
    /\ \E d \in SeqToSet(drivers_to_close) : inst[d].driver.status = "live"
    /\ \E d \in active_drivers : Held(d) /\ inst[d].driver.status = "live"

\* every endpoint of every list of map m passed a probe for that list's
\* session in validator v's latest round
ProbedInRound(m, v) ==
    \A s \in DOMAIN m :
        /\ s \in Sessions
        /\ \A i \in 1..Len(m[s]) : \E j \in 1..Len(v_order[v][s]) : m[s][i] = v_order[v][s][j]

\* C19: every endpoint listed for session S in a validator's map, in the
\* map the servicer got from its validator's round, and in the map the
\* reload thread got from its latest round, passed a probe for S in the
\* round that built that map.
C19_OnlyProbedEndpoints ==
    /\ \A v \in Validators : ProbedInRound(valid_proxies[v], v)
    /\ ProbedInRound(servicer_valid_proxies, "srv")
    /\ v_pc["bg"] = "idle" => ProbedInRound(new_proxy_map, "bg")

\* C19 witness: the servicer serves a map with an endpoint for a session
\* from a round in which another candidate's probe failed, and the reload
\* thread holds a non-empty map of a round of its own.
C19_Witness ==
    /\ server_pc = "serving"
    /\ \E s \in DOMAIN servicer_valid_proxies :
           /\ Len(servicer_valid_proxies[s]) > 0
           /\ failed_proxies["srv"] # {}
    /\ v_pc["bg"] = "idle"
    /\ \E s \in DOMAIN new_proxy_map :
           Len(new_proxy_map[s]) > 0 /\ Len(new_proxy_map[s]) < Len(v_proxies["bg"])

\* validator v is inside a round: past the test of the failed cache's age
InRound(v) == v_pc[v] \notin {"idle", "start"}

\* C20: an endpoint added to the failed cache is removed from it again:
\* once a round has begun, no endpoint of the cache was added more than
\* two periods of 30 minutes ago.
C20_FailedSetCleared ==
    \A v \in Validators :
        InRound(v) =>
            \A p \in failed_proxies[v] : clock - failed_at[v][p] <= 2 * FAILED_TTL

\* C21: the reload loop goes on after an error: a round that raised is
\* followed by the finally block and the next sleep, from which the next
\* iteration starts; whenever an iteration ends, after an error or after a
\* round that returned, the validator's pool has been closed: its active
\* dict and its queue are empty and every instance it made is quit.
C21_IterationEnds ==
    (reload_pc \in {"close", "except"} /\ reload_pc' # reload_pc) =>
        /\ reload_pc' = "sleep"
        /\ reloads' = reloads + 1
        /\ active_drivers' = {}
        /\ available_drivers' = <<>>
        /\ \A d \in InstIds : Allocated(d) => inst'[d].driver.status = "quit"

C21_Caught ==
    (reload_pc = "round" /\ reload_pc' # reload_pc) => reload_pc' \in {"close", "except"}

C21_NextIteration ==
    (reload_pc = "sleep" /\ reloads < LoopRounds) => ENABLED reload_wake(LoopRounds)

C21_LoopSurvivesErrors ==
    /\ [][C21_IterationEnds /\ C21_Caught]_vars
    /\ []C21_NextIteration

\* C21 witness: the first iteration's round raised after its probes had
\* made an instance; the pool was closed, the thread sleeps, and the next
\* iteration can start.
C21_Witness ==
    /\ reloads = 1
    /\ reload_pc = "sleep"
    /\ v_pc["bg"] = "raised"
    /\ \E d \in InstIds : Destroyed(d)
    /\ active_drivers = {} /\ available_drivers = <<>>
    /\ ENABLED reload_wake(LoopRounds)

\* C22: a call attempts steps A and B only if the request asks for a proxy
\* and the served map has a non-empty list for its session, and otherwise
\* begins at C; the proxy of step A is an element of that list, step B goes
\* through the same proxy, steps C and D go through none; the driver a
\* call holds in step A is the one it asked for that proxy, in step C the
\* one it asked for no proxy.
C22_ProxySteps ==
    \A c \in Workers :
        LET f == fetch[c]
            log == f.attempts
            proxied == f.proxy /\ f.session \in DOMAIN served_map
                           /\ served_map[f.session] # <<>>
            started == f.pc \in {"A", "B", "C", "D"} \/ log # <<>>
        IN  /\ (started /\ proxied) =>
                   /\ f.proxy_addr \in SeqToSet(served_map[f.session])
                   /\ IF log # <<>> THEN log[1].step = "A" ELSE f.pc = "A"
            /\ (started /\ ~proxied) =>
                   /\ f.pc \notin {"A", "B"}
                   /\ \A i \in 1..Len(log) : log[i].step \in {"C", "D"}
            /\ \A i \in 1..Len(log) :
                   IF log[i].step \in {"A", "B"}
                   THEN log[i].via = f.proxy_addr /\ log[i].via # None
                   ELSE log[i].via = None
            /\ client[c].pc \in {"using", "nodriver"} =>
                   client[c].want = (IF f.pc = "A" THEN f.proxy_addr ELSE None)

\* C22 witness: a call for a session with two known-good proxies chose the
\* second one, failed at A and at B through it and then ran C without one.
C22_Witness ==
    \E c \in Workers :
        LET f == fetch[c] IN
        /\ f.session \in DOMAIN served_map
        /\ Len(served_map[f.session]) = 2
        /\ f.proxy_addr = served_map[f.session][2]
        /\ Len(f.attempts) = 3
        /\ f.attempts[1].step = "A" /\ f.attempts[1].via = f.proxy_addr
        /\ f.attempts[2].step = "B" /\ f.attempts[2].via = f.proxy_addr
        /\ f.attempts[3].step = "C" /\ f.attempts[3].via = None

\* C23: an endpoint that is in the failed cache when its batch is tested is
\* not probed in that batch: no probe asks the pool for a driver for it,
\* and it is not among the endpoints the batch adds to the valid ones; a
\* batch whose endpoints are all in the cache runs no probe and adds
\* nothing.
C23_NoProbeOfFailed ==
    \A s \in Sessions :
        ProbingOf("bg", s) =>
            /\ \A c \in Clients :
                   client[c].pc # "idle" =>
                       /\ client[c].want \notin failed_proxies["bg"]
                       /\ client[c].want \in SeqToSet(CurrentBatch("bg", s))
            /\ SeqToSet(CurrentBatch("bg", s)) \subseteq failed_proxies["bg"] => ProbesDone

C23_BatchSuccesses ==
    \A s \in Sessions :
        LET before == v_order["bg"][s]
            after == v_order["bg"][s]'
        IN  (Len(after) > Len(before) \/ v_task["bg"][s].next' # v_task["bg"][s].next
                \/ (ProbingOf("bg", s) /\ ~ProbingOf("bg", s)')) =>
                /\ \A i \in (Len(before) + 1)..Len(after) :
                       /\ after[i] \notin failed_proxies["bg"]
                       /\ after[i] \in SeqToSet(CurrentBatch("bg", s))
                /\ (ProbingOf("bg", s)
                      /\ SeqToSet(CurrentBatch("bg", s)) \subseteq failed_proxies["bg"]) =>
                       after = before /\ failed_proxies' = failed_proxies

C23_FailedSetFilter == []C23_NoProbeOfFailed /\ [][C23_BatchSuccesses]_vars

\* C23 witness: in the second round endpoint 1, which failed in the first,
\* is in the batch with endpoint 2; a probe holds a driver for endpoint 2.
C23_Witness ==
    /\ reloads = 1
    /\ failed_proxies["bg"] = {1}
    /\ \E s \in Sessions :
           /\ ProbingOf("bg", s)
           /\ CurrentBatch("bg", s) = <<1, 2>>
           /\ \E c \in Clients : client[c].pc = "using" /\ client[c].want = 2

\* C24: a round whose candidate list is empty returns the empty map: the
\* reload thread's new_proxy_map is empty after it, the servicer's map is
\* empty after an empty start-up round; no step of a round of the reload
\* thread changes the map the servicer serves, which is assigned by the
\* servicer's start-up alone.
C24_EmptyMapReturned ==
    /\ \A v \in Validators :
           (v_pc[v] = "return" /\ v_proxies[v] = <<>>) => ReturnedMap(v) = EmptyMap
    /\ (reload_pc = "close" /\ v_proxies["bg"] = <<>>) => new_proxy_map = EmptyMap
    /\ (server_pc = "serving" /\ v_proxies["srv"] = <<>>) => served_map = EmptyMap

C24_ServedMapRetained ==
    served_map' # served_map => (server_pc = "init" /\ server_pc' = "serving")

C24_EmptyCandidates == []C24_EmptyMapReturned /\ [][C24_ServedMapRetained]_vars

\* C24 witness: the servicer serves a non-empty map; a round of the reload
\* thread found no candidate and has returned the empty map.
C24_Witness ==
    /\ server_pc = "serving"
    /\ \E s \in DOMAIN served_map : Len(served_map[s]) > 0
    /\ reload_pc = "close"
    /\ v_proxies["bg"] = <<>>
    /\ new_proxy_map = EmptyMap
    /\ pre_round_map = served_map

\* the endpoints probed for session s in validator v's round so far
Probed(v, s) == SeqToSet(v_order[v][s]) \cup failed_proxies[v]

RECURSIVE BatchesUpTo(_, _)
BatchesUpTo(proxies, k) ==
    IF k < 1 THEN {} ELSE SeqToSet(Batch(proxies, k)) \cup BatchesUpTo(proxies, k - 1)

\* C25: within a session's validation the batches are taken in the order
\* of the candidate list, one after the other; only endpoints of the
\* batches taken so far have been probed; once the valid endpoints are 20
\* or more after a batch, the task ends there with the first 20 of them,
\* and no endpoint of a later batch is probed.
C25_ProbedInOrder ==
    \A s \in Sessions :
        LET t == v_task["srv"][s] IN
        t.status # "none" =>
            /\ Probed("srv", s) \subseteq BatchesUpTo(v_proxies["srv"], t.next)
            /\ t.status = "running" =>
                   /\ Len(t.all_valid) < QUOTA
                   /\ Probed("srv", s) \subseteq BatchesUpTo(v_proxies["srv"], t.next - 1)
            /\ t.status = "done" =>
                   /\ t.all_valid = Prefix(v_order["srv"][s], QUOTA)
                   /\ t.next < NumBatches(v_proxies["srv"]) =>
                          Len(v_order["srv"][s]) >= QUOTA

C25_BatchStep ==
    \A s \in Sessions :
        LET t == v_task["srv"][s]
            u == v_task["srv"][s]'
        IN  (t.status = "running" /\ u.status # "none") =>
                /\ u.next \in {t.next, t.next + 1}
                /\ Probed("srv", s)' # Probed("srv", s) =>
                       \/ u.status = "running" /\ u.next = t.next + 1
                       \/ u.status = "done" /\ u.next = t.next
                /\ Len(v_order["srv"][s]') >= QUOTA => (u.status = "done" /\ u.next = t.next)
                /\ t.status = "done" => u.next = t.next

C25_Frozen ==
    \A s \in Sessions :
        v_task["srv"][s].status = "done" =>
            /\ v_order["srv"][s]' = v_order["srv"][s]
            /\ failed_proxies["srv"]' = failed_proxies["srv"]

C25_EarlyTermination == []C25_ProbedInOrder /\ [][C25_BatchStep /\ C25_Frozen]_vars

\* C25 witness: 20 endpoints were valid after the fourth of five batches;
\* the task has ended with them and endpoint 21 was not probed.
C25_Witness ==
    \E s \in Sessions :
        /\ v_task["srv"][s].status = "done"
        /\ v_task["srv"][s].next = 4
        /\ NumBatches(v_proxies["srv"]) = 5
        /\ Len(v_task["srv"][s].all_valid) = QUOTA
        /\ 21 \notin Probed("srv", s)
        /\ v_pc["srv"] = "return"

\* the pool holds max_drivers instances or more, in use and idle together
AtCapacity == Cardinality(active_drivers) + Len(available_drivers) >= max_drivers

\* C26: when get_driver(E) gives a caller an instance while the pool is at
\* capacity and its queue holds idle instances, all healthy and none
\* reusable for E, exactly one idle instance has left the queue and been
\* destroyed, the one with the oldest last_used, and the instance given is
\* live and bound to E.
C26_Replaced ==
    \A c \in Clients :
        LET E == client[c].want'
            idle == SeqToSet(available_drivers)
            gone == idle \ SeqToSet(available_drivers')
            d == client[c].held'
        IN  (/\ client[c].pc = "idle" /\ client[c].pc' = "using"
             /\ AtCapacity
             /\ idle # {}
             /\ \A i \in idle : Healthy(i) /\ ~can_reuse_driver(i, E)) =>
                /\ Cardinality(gone) = 1
                /\ \A g \in gone : \A i \in idle : inst[g].last_used <= inst[i].last_used
                /\ \A g \in gone : g = d \/ inst'[g].driver.status = "quit"
                /\ inst'[d].driver.status = "live"
                /\ inst'[d].current_proxy = E
                /\ inst'[d].driver.proxy = E

C26_AcquireAtCapacity == [][C26_Replaced]_vars

\* C27: a return_driver(instance, had_error) call leaves the instance out
\* of the active dict and adds 1 to its error_count exactly for had_error;
\* if the count is then below 3 and the browser answers, the instance goes
\* to the end of the queue with last_used set to the time of the call, and
\* otherwise it is quit and is in neither collection.
C27_Released ==
    \A c \in Clients :
        (client[c].pc = "using" /\ client[c].pc' = "idle") =>
            LET d == client[c].held IN
            \E had_error \in BOOLEAN :
                LET ec == inst[d].error_count + (IF had_error THEN 1 ELSE 0) IN
                /\ d \notin active_drivers'
                /\ active_drivers' = active_drivers \ {d}
                /\ IF ec < MaxErrors /\ inst[d].driver.status = "live"
                   THEN /\ available_drivers' = Append(available_drivers, d)
                        /\ inst'[d].error_count = ec
                        /\ inst'[d].err_releases =
                               (IF had_error /\ inst[d].err_releases < MaxErrors
                                THEN inst[d].err_releases + 1 ELSE inst[d].err_releases)
                        /\ inst'[d].last_used = now
                        /\ ~inst'[d].in_use
                        /\ inst'[d].driver = inst[d].driver
                   ELSE /\ available_drivers' = available_drivers
                        /\ d \notin SeqToSet(available_drivers')
                        /\ inst'[d].driver.status = "quit"

C27_Release == [][C27_Released]_vars

\* C27 witness: an instance released twice with an error is back in the
\* queue with error_count 2 and the time of its release, and another
\* instance was destroyed.
C27_Witness ==
    /\ \E d \in SeqToSet(available_drivers) :
           /\ inst[d].error_count = 2
           /\ inst[d].err_releases = 2
           /\ inst[d].last_used = MaxTime
           /\ inst[d].driver.status = "live"
    /\ \E d \in InstIds : Destroyed(d) /\ ~InPool(d)

\* the queue positions get_driver(E) scans: up to the first instance that
\* answers and can be reused for E, or the whole queue
Reusable(d, E) ==
    /\ inst[d].driver.status = "live"
    /\ inst[d].current_proxy = E
    /\ inst[d].error_count < MaxErrors

Scanned(q, E) ==
    IF \E i \in 1..Len(q) : Reusable(q[i], E)
    THEN 1..(CHOOSE i \in 1..Len(q) :
                 Reusable(q[i], E) /\ \A j \in 1..(i - 1) : ~Reusable(q[j], E))
    ELSE 1..Len(q)

\* C28: get_driver never gives a caller an instance whose browser did not
\* answer during the scan; every such instance the scan met is quit and
\* is no longer in the queue; the scan goes on after it: the first
\* reusable instance behind it is the one given, and the instances that
\* answered and were not taken for the caller stay in the queue.
C28_CheckedOut ==
    \A c \in Clients :
        (client[c].pc = "idle" /\ client[c].pc' # "idle") =>
            LET E == client[c].want'
                q == available_drivers
                met == {q[i] : i \in Scanned(q, E)}
                dead == {d \in met : inst[d].driver.status # "live"}
            IN  /\ \A d \in dead :
                       /\ d \notin SeqToSet(available_drivers')
                       /\ d \notin active_drivers'
                       /\ inst'[d].driver.status = "quit"
                /\ client[c].pc' = "using" =>
                       /\ client[c].held' \notin dead
                       /\ inst'[client[c].held'].driver.status = "live"
                /\ (\E d \in met : Reusable(d, E)) =>
                       /\ client[c].pc' = "using"
                       /\ Reusable(client[c].held', E)
                       /\ client[c].held' \in met
                /\ \A d \in SeqToSet(q) \ dead :
                       d \in SeqToSet(available_drivers')
                           \/ (client[c].pc' = "using" /\ client[c].held' = d)
                           \/ inst'[d].driver.status = "quit"

C28_HealthCheckOnCheckout == [][C28_CheckedOut]_vars

\* C28 witness: the pool has quit an instance that had crashed in the
\* queue and given a caller the live instance that was behind it.
C28_Witness ==
    \E c \in Clients, d \in InstIds :
        /\ client[c].pc = "using"
        /\ client[c].held > d
        /\ inst[client[c].held].driver.status = "live"
        /\ inst[client[c].held].last_used = MaxTime
        /\ Destroyed(d) /\ ~InPool(d) /\ ~Held(d)
        /\ inst[d].error_count < MaxErrors
        /\ available_drivers = <<>>
        /\ cleanup_pc = "sleep"

\* a step of an operation whose body runs inside `with self._lock`
LockedStep ==
    \/ \E c \in Clients :
           /\ client[c].pc = "using" /\ client[c].pc' = "idle"
           /\ \E e \in BOOLEAN : return_driver(c, e)
    \/ \E c \in Clients :
           /\ client[c].pc = "idle" /\ client[c].pc' # "idle"
           /\ \E ok \in CreateOutcomes : get_driver(c, client[c].want', ok)
    \/ (cleanup_pc = "sleep" /\ cleanup_pc' = "close" /\ cleanup_scan)
    \/ (client' = client /\ cleanup_pc' = cleanup_pc /\ close_all)

\* a browser is quit in this step
Destroys == \E d \in InstIds : inst[d].driver.status # "quit" /\ inst'[d].driver.status = "quit"

CollectionsChange ==
    active_drivers' # active_drivers \/ available_drivers' # available_drivers

\* C29 as stated: the queue and the active dict change only in steps made
\* under the lock, and no browser is quit in a step made under the lock.
C29_NoQuitUnderLockStep ==
    /\ CollectionsChange => LockedStep
    /\ Destroys => ~LockedStep

C29_NoQuitUnderLock == [][C29_NoQuitUnderLockStep]_vars

\* C29 amended: the queue and the active dict change only in steps made
\* under the lock; the cleanup thread quits no browser in its scan under
\* the lock, but after it, in a step that leaves both collections alone
\* and quits exactly the instances the scan took off the queue; every
\* other quit is made by get_driver, return_driver or close_all under the
\* lock.
C29_LockStep ==
    /\ CollectionsChange => LockedStep
    /\ (cleanup_pc = "sleep" /\ cleanup_pc' = "close") => (cleanup_scan /\ ~Destroys)
    /\ (cleanup_pc = "close" /\ cleanup_pc' = "sleep") =>
           /\ ~CollectionsChange
           /\ ~LockedStep
           /\ \A d \in InstIds :
                  (inst[d].driver.status # "quit" /\ inst'[d].driver.status = "quit")
                      <=> (d \in SeqToSet(drivers_to_close)
                              /\ inst[d].driver.status # "quit")
    /\ Destroys => (LockedStep \/ (cleanup_pc = "close" /\ cleanup_pc' = "sleep"))

C29_LockDiscipline == [][C29_LockStep]_vars

\* C29 witness: the cleanup thread has left the lock with an instance to
\* quit, while the pool has already quit another one.
C29_Witness ==
    /\ cleanup_pc = "close"
    /\ Len(drivers_to_close) = 1
    /\ inst[drivers_to_close[1]].driver.status = "live"
    /\ \E d \in InstIds : Destroyed(d) /\ d \notin SeqToSet(drivers_to_close)

\* C30: the installer returns a path at most once in the process, and
\* once the path is stored no thread is in the installer or enters it;
\* at most one thread is in the installer at a time; every call that
\* returned gave the stored path, which is set: all callers hold the same
\* path and none holds None.
C30_Once ==
    /\ installs <= 1
    /\ CHROME_DRIVER_PATH # None <=> installs = 1
    /\ Cardinality({t \in Threads : caller[t].pc = "install"}) <= 1
    /\ CHROME_DRIVER_PATH # None => \A t \in Threads : caller[t].pc # "install"
    /\ \A t \in Threads :
           /\ caller[t].pc = "return" => CHROME_DRIVER_PATH # None
           /\ caller[t].calls > 0 =>
                  /\ caller[t].result # None
                  /\ caller[t].result = CHROME_DRIVER_PATH
    /\ \A t, u \in Threads :
           (caller[t].calls > 0 /\ caller[u].calls > 0) =>
               caller[t].result = caller[u].result

C30_PathStays ==
    CHROME_DRIVER_PATH # None => CHROME_DRIVER_PATH' = CHROME_DRIVER_PATH

C30_ResolvedOnce == []C30_Once /\ [][C30_PathStays]_vars

\* C30 witness: one install raised and one returned a path; each of the
\* three threads has returned from a call, with that path.
C30_Witness ==
    /\ failures = 1
    /\ installs = 1
    /\ \A t \in Threads : caller[t].calls = 1 /\ caller[t].result = CHROME_DRIVER_PATH
    /\ CHROME_DRIVER_LOCK = None

(***************************************************************************)
(* C31: every instance acquired by a browser fetch step of FetchContent or *)
(* by a validation probe is released to its pool exactly once before that  *)
(* step returns, on success and on every failure path, with had_error true *)
(* exactly when the step raised (for a probe: when an exception reached    *)
(* its handler); hence when no RPC and no probe is in flight the pool's    *)
(* in-use set is empty.                                                    *)
(***************************************************************************)
\* caller c is inside _fetch_with_selenium or _quick_proxy_test
InStep(c) == fetch[c].pc \in {"A", "C"} \/ probe[c].pc = "testing"

\* this step is the return of the call caller c is inside
StepReturns(c) ==
    \/ fetch[c].pc \in {"A", "C"} /\ Len(fetch'[c].attempts) = Len(fetch[c].attempts) + 1
    \/ probe[c].pc = "testing" /\ probe'[c].pc = "returned"

\* the call that returns in this step raised
StepRaised(c) ==
    IF probe[c].pc = "testing" THEN probe'[c].raised
    ELSE ~fetch'[c].attempts[Len(fetch'[c].attempts)].ok

Occurrences(q, d) == Cardinality({i \in 1..Len(q) : q[i] = d})

\* an instance is held only inside a step, and the in-use set is the set of
\* the instances held
C31_HeldInsideSteps ==
    /\ \A c \in Clients : client[c].pc \in {"using", "nodriver"} => InStep(c)
    /\ active_drivers = {client[c].held : c \in {k \in Clients : client[k].pc = "using"}}
    /\ (\A c \in Clients : ~InStep(c)) => active_drivers = {}

\* the step that returns releases what it holds, once, with had_error as raised
C31_ReleaseAtReturn ==
    \A c \in Clients :
        LET d == client[c].held
            n == IF StepRaised(c) THEN 1 ELSE 0
        IN
        /\ (StepReturns(c) /\ client[c].pc = "using") =>
              /\ client'[c].pc = "idle"
              /\ d \notin active_drivers'
              /\ Occurrences(available_drivers', d) =
                     (IF Healthy(d) /\ inst[d].error_count + n < MaxErrors THEN 1 ELSE 0)
              /\ IF d \in SeqToSet(available_drivers')
                 THEN /\ inst'[d].error_count = inst[d].error_count + n
                      /\ ~inst'[d].in_use
                 ELSE inst'[d].driver.status = "quit"
        /\ (StepReturns(c) /\ client[c].pc = "nodriver") =>
              /\ client'[c].pc = "idle"
              /\ UNCHANGED <<available_drivers, active_drivers, inst>>
        /\ (client[c].pc = "using" /\ client'[c] # client[c]) => StepReturns(c)

Acquires(c) == client[c].pc = "idle" /\ client'[c].pc \in {"using", "nodriver"}

\* the healthy instances of the available queue
HealthyAvailable == {d \in SeqToSet(available_drivers) : Healthy(d)}

\* d is in the queue after the step as it was before it
StillAvailable(d) ==
    /\ Occurrences(available_drivers', d) = 1
    /\ inst'[d].current_proxy = inst[d].current_proxy
    /\ inst'[d].error_count = inst[d].error_count
    /\ inst'[d].last_used = inst[d].last_used
    /\ inst'[d].driver = inst[d].driver

C32_ScanKeepsHealthy ==
    \A c \in Clients :
        Acquires(c) =>
            LET gone == {d \in HealthyAvailable : ~StillAvailable(d)} \ {client'[c].held}
            IN  /\ Cardinality(gone) <= 1
                /\ gone # {} =>
                       /\ client'[c].pc = "nodriver"
                       /\ ~under_limit
                       /\ \A d \in gone : inst'[d].driver.status = "quit"

C32_NoHealthyLost == [][C32_ScanKeepsHealthy]_vars

\* a caller holds an instance bound to the proxy it asked for while a live
\* instance bound to another proxy, which the scan met first, is still queued
C32_Witness ==
    \E c \in Clients, d \in SeqToSet(available_drivers) :
        /\ client[c].pc = "using"
        /\ inst[client[c].held].current_proxy = client[c].want
        /\ client[c].held > d
        /\ Healthy(d)
        /\ inst[d].current_proxy # client[c].want
        /\ inst[d].last_used <= inst[client[c].held].last_used

(***************************************************************************)
(* C33: under any interleaving of acquire, release, the idle reaper and    *)
(* shutdown, an instance that has been selected for destruction (taken by  *)
(* the reaper, or quit) is never returned by a concurrent or later         *)
(* acquire, and no instance is checked out by two callers at the same      *)
(* time.                                                                   *)
(***************************************************************************)
\* the reaper has taken d off the queue, or d's browser has been quit
Selected(d) == d \in SeqToSet(drivers_to_close) \/ Destroyed(d)

C33_NoSharing ==
    /\ \A c1, c2 \in Clients :
           (c1 # c2 /\ client[c1].pc = "using" /\ client[c2].pc = "using")
               => client[c1].held # client[c2].held
    /\ \A d \in InstIds :
           Selected(d) => d \notin SeqToSet(available_drivers)

C33_AcquireStep ==
    /\ \A d \in InstIds : Selected(d) => Selected(d)'
    /\ \A c \in Clients :
           (Acquires(c) /\ client'[c].pc = "using") =>
               LET d == client'[c].held IN
               /\ ~Selected(d)
               /\ ~Held(d)
               /\ inst'[d].driver.status = "live"
               /\ d \notin SeqToSet(drivers_to_close')

C33_NoUseAfterSelection == []C33_NoSharing /\ [][C33_AcquireStep]_vars

\* the reaper has taken instance d, still live, off the queue and has not
\* quit it yet; a caller that asked for d's proxy holds a younger instance
C33_Witness ==
    \E c \in Clients, d \in SeqToSet(drivers_to_close) :
        /\ cleanup_pc = "close"
        /\ inst[d].driver.status = "live"
        /\ client[c].pc = "using"
        /\ client[c].held > d
        /\ client[c].want = inst[d].current_proxy
        /\ inst[client[c].held].current_proxy = client[c].want

====
